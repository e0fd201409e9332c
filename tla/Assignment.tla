------------------------------ MODULE Assignment ------------------------------
(***************************************************************************)
(* The tiers by which a canonical task gets an assignee, and the routing   *)
(* rule that the fifth of them picks (src/src/assignment).  What the tiers *)
(* answer is written to the audit log and nowhere else.                    *)
(***************************************************************************)
EXTENDS Naturals, FiniteSets

CONSTANTS
    Rules,       \* ids of routing rules
    Areas,       \* practice areas of rules, and the matters of tasks
    ActionTypes,
    RuleArea,    \* RuleArea[r]: its practice_area, or Wild
    RuleAction,  \* RuleAction[r]: its action_type, or Wild
    Priority,    \* Priority[r]: the higher, the sooner
    Wild          \* the wildcard '*'

ASSUME RulesAssumption ==
    /\ RuleArea \in [Rules -> Areas \cup {Wild}]
    /\ RuleAction \in [Rules -> ActionTypes \cup {Wild}]
    /\ Priority \in [Rules -> Nat]
    /\ Wild \notin Areas \cup ActionTypes
    /\ IsFiniteSet(Rules)

\* role: the assignee_role of the task, "ambiguous" for "we", "someone" and
\* the like; owned, matterOwned: the lookups of tiers 3 and 4 find somebody
Tasks == [role : {"none", "named", "ambiguous"}, user : BOOLEAN,
          matter : Areas \cup {Wild}, action : ActionTypes,
          owned : BOOLEAN, matterOwned : BOOLEAN]

Matches(r, area, action) ==
    RuleArea[r] \in {area, Wild} /\ RuleAction[r] \in {action, Wild}

\* ORDER BY: named areas, then named actions, then priority
Before(q, r) ==
    LET Loose(f, x) == IF f[x] = Wild THEN 1 ELSE 0
        areas   == <<Loose(RuleArea, q), Loose(RuleArea, r)>>
        actions == <<Loose(RuleAction, q), Loose(RuleAction, r)>>
    IN  \/ areas[1] < areas[2]
        \/ areas[1] = areas[2] /\ actions[1] < actions[2]
        \/ areas[1] = areas[2] /\ actions[1] = actions[2] /\ Priority[q] > Priority[r]

\* the rules that LIMIT 1 may return; the ties are the database's choice
FindRule(active, area, action) ==
    LET fit == {r \in active : Matches(r, area, action)}
    IN  {r \in fit : \A q \in fit : ~Before(q, r)}

\* A bug for the mutants: the owner of the matter is not asked for.
MethodUnowned(task, active) ==
    CASE task.role = "ambiguous"                  -> "triage"
      [] task.role # "ambiguous" /\ task.user     -> "explicit"
      [] task.role = "named" /\ ~task.user        -> "role"
      [] OTHER ->
         IF task.matter # Wild /\ task.owned THEN "existing_owner"
         ELSE IF FindRule(active, task.matter, task.action) # {} THEN "rule" ELSE "triage"

\* The method a task is assigned by.  A task without a matter asks for the
\* rules of '*'; the others ask with the id of their matter as practice area.
Method(task, active) ==
    CASE task.role = "ambiguous"                  -> "triage"
      [] task.role # "ambiguous" /\ task.user     -> "explicit"
      [] task.role = "named" /\ ~task.user        -> "role"
      [] OTHER ->
         IF task.matter # Wild /\ (task.owned \/ task.matterOwned)
         THEN IF task.owned THEN "existing_owner" ELSE "matter_owner"
         ELSE IF FindRule(active, task.matter, task.action) # {} THEN "rule" ELSE "triage"
=============================================================================
