----------------------------- MODULE Visibility -----------------------------
(***************************************************************************)
(* What a caller may read and what their view shows, as the code states it *)
(* twice: in Go (internal/auth, internal/alerts) for one alert or event at *)
(* a time, and as the SQL conditions internal/postgres puts into its       *)
(* queries.  The stream filters with the SQL and then decides in Go what   *)
(* to redact, so the two have to agree.                                    *)
(*                                                                         *)
(* Labels are a function from the names an alert carries to values.  The   *)
(* order of grants and of matchers plays no part, so both are sets.  A     *)
(* regular expression is the set of values it is found in (Finds); a       *)
(* binding or view group is stored only when Go and PostgreSQL both        *)
(* compile it, and the two engines are taken to find the same values.      *)
(***************************************************************************)

CONSTANTS
    Finds,    \* <<pattern, value>>: the pattern is found in the value
    None      \* no value: nil in Go, NULL in SQL

\* auth.supportedMatcherOps.
supportedMatcherOps == {"=", "!=", "=~", "!~"}

-----------------------------------------------------------------------------
(* In Go.                                                                  *)

\* One turn of the matcher loops of CanReadLabels, CanOperateLabels and
\* MatchViewGroups: an absent label satisfies no operator.
Satisfies(labels, matcher) ==
    /\ matcher.name \in DOMAIN labels
    /\ LET value == labels[matcher.name]
       IN  CASE matcher.operator = "="  -> value = matcher.value
             [] matcher.operator = "!=" -> value # matcher.value
             [] matcher.operator = "=~" -> <<matcher.value, value>> \in Finds
             [] matcher.operator = "!~" -> <<matcher.value, value>> \notin Finds
             [] OTHER -> FALSE

CanRead(principal) ==
    principal.anonymous \/ \E grant \in principal.grants :
                              grant.role \in {"viewer", "operator", "administrator"}

CanReadLabels(principal, labels) ==
    \/ principal.anonymous
    \/ \E grant \in principal.grants :
          \/ grant.role = "administrator"
          \/ /\ grant.role \in {"viewer", "operator"}
             /\ \A matcher \in grant.matchers : Satisfies(labels, matcher)

CanOperateLabels(principal, labels) ==
    \E grant \in principal.grants :
       \/ grant.role = "administrator"
       \/ /\ grant.role = "operator"
          /\ \A matcher \in grant.matchers : Satisfies(labels, matcher)

Unrestricted(grant) ==
    \/ grant.role = "administrator"
    \/ grant.role \in {"viewer", "operator"} /\ grant.matchers = {}

\* The caller's scoped grants count only beside an unrestricted one; the view
\* groups they belong to always do.
ViewMatchers(principal) ==
    IF principal.anonymous THEN {}
    ELSE (IF \E grant \in principal.grants : Unrestricted(grant)
          THEN {grant.matchers : grant \in {g \in principal.grants :
                   g.role \in {"viewer", "operator"} /\ g.matchers # {}}}
          ELSE {})
         \cup {group \in principal.viewGroups : group # {}}

\* A resolved view: the selectors, and the options of the request or None.
active(view) == view.options # None /\ view.groups # {}
filtering(view) == active(view) /\ ~view.options.showAll

resolveView(principal, options) ==
    [options |-> options,
     groups  |-> IF options = None THEN {} ELSE ViewMatchers(principal)]

MatchViewGroups(groups, labels) ==
    \E group \in groups : /\ group # {}
                          /\ \A matcher \in group : Satisfies(labels, matcher)

IsCritical(labels) ==
    "severity" \in DOMAIN labels /\ labels["severity"] = "critical"

ClassifyView(view, labels) ==
    CASE MatchViewGroups(view.groups, labels) -> "view"
      [] ~MatchViewGroups(view.groups, labels)
            /\ ~view.options.filterCritical /\ IsCritical(labels) -> "critical"
      [] OTHER -> "outside"

includes(view, labels) ==
    filtering(view) => ClassifyView(view, labels) # "outside"

-----------------------------------------------------------------------------
(* In SQL, over the jsonb column of a row.                                 *)

\* labels ? name AND labels->>name <operator> value
Selected(labels, matcher) ==
    /\ matcher.name \in DOMAIN labels
    /\ \/ matcher.operator = "="  /\ labels[matcher.name] = matcher.value
       \/ matcher.operator = "!=" /\ labels[matcher.name] # matcher.value
       \/ matcher.operator = "=~" /\ <<matcher.value, labels[matcher.name]>> \in Finds
       \/ matcher.operator = "!~" /\ <<matcher.value, labels[matcher.name]>> \notin Finds

\* The grants of a role list, ORed: TRUE at the first that has no selectors,
\* FALSE when none is left.
Scope(principal, roles, labels) ==
    LET scoped == {grant \in principal.grants : grant.role \in roles}
    IN  \/ \E grant \in principal.grants : grant.role = "administrator"
        \/ \E grant \in scoped : grant.matchers = {}
        \/ \E grant \in scoped : \A matcher \in grant.matchers : Selected(labels, matcher)

readAccessCondition(principal, labels) ==
    principal.anonymous \/ Scope(principal, {"viewer", "operator"}, labels)

operateAccessCondition(principal, labels) == Scope(principal, {"operator"}, labels)

\* COALESCE(labels->>'severity', 'warning')
SeverityOf(labels) ==
    IF "severity" \in DOMAIN labels THEN labels["severity"] ELSE "warning"

visibleCondition(view, labels) ==
    \/ \E group \in view.groups : \A matcher \in group : Selected(labels, matcher)
    \/ ~view.options.filterCritical /\ SeverityOf(labels) = "critical"

\* alertFiltersWithView: scope, then the view - or, to count what it hides,
\* its negation, still inside scope.
ShownBy(principal, view, labels) ==
    /\ readAccessCondition(principal, labels)
    /\ filtering(view) => visibleCondition(view, labels)

HiddenBy(principal, view, labels) ==
    readAccessCondition(principal, labels) /\ ~visibleCondition(view, labels)
=============================================================================
