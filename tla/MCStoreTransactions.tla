------------------------ MODULE MCStoreTransactions ------------------------
(***************************************************************************)
(* Two alerts of one source and five transactions: two webhook batches     *)
(* that name them in opposite orders, a bulk close that names both, one of *)
(* them twice, the sweep and a reconciliation pass.                        *)
(***************************************************************************)
EXTENDS StoreTransactions

CONSTANTS a1, a2, s1, l1, l2, n1, op1, w1, w2, close, sweep, pass

MCSourceOf == [a \in {a1, a2} |-> s1]
MCScope == [op \in {op1} |-> {l1}]
MCTimeout == [l \in {l1, l2} |-> NoWindow]
MCStaleAfter == [s \in {s1} |-> NoWindow]

Sent(status, l) == [status |-> status, labels |-> l, annotations |-> n1]
Active == [suppressed |-> FALSE, silencedBy |-> {}]

\* w1 starts both alerts; w2 ends a2 and moves a1 out of the operator's scope.
MCRequestOf ==
    [t \in {w1, w2, close, sweep, pass} |->
       CASE t = w1 -> [kind |-> "ingest", list |-> <<a1, a2>>,
                       deliveries |-> [a \in {a1, a2} |-> Sent("firing", l1)]]
         [] t = w2 -> [kind |-> "ingest", list |-> <<a2, a1>>,
                       deliveries |-> [a \in {a1, a2} |->
                          IF a = a2 THEN Sent("resolved", l1) ELSE Sent("firing", l2)]]
         [] t = close -> [kind |-> "bulk", list |-> <<a1, a2, a1>>, by |-> op1,
                          change |-> "close", assignee |-> NoOne]
         [] t = sweep -> [kind |-> "sweep", list |-> <<>>]
         [] t = pass -> [kind |-> "reconcile", list |-> <<>>, source |-> s1,
                         live |-> [a \in {a1, a2} |-> Active],
                         missing |-> {}, active |-> NoListing]]
=============================================================================
