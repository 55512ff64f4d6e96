----------------------------- MODULE MCLintaiRun -----------------------------
(* Workspaces and command lines for TLC. *)
EXTENDS LintaiRun, TLC

CONSTANTS f1, f2, r1, r2, a, b, v1, v2, v3, v4

Missing == [state |-> "missing", content |-> EmptyFile]
Whole(contents) == {[state |-> "whole", content |-> c] : c \in contents}
OneSlot(s, entries) == {s :> e : e \in entries}
LockOf(status, contents) ==
  {[state |-> "whole", rules |-> status, suppressions |-> c] : c \in contents}

CountOnly(n) == [count |-> n, entities |-> NoEntities]
Lists(k, n) == [count |-> n, entities |-> (k :> n)]
ListsBoth(n, m) == [count |-> n + m, entities |-> (a :> n) @@ (b :> m)]

Line == [mode |-> "check", named |-> {}, explicit |-> FALSE, lock |-> FALSE,
         files |-> Paths, rules |-> Rules, severity |-> [r \in Rules |-> "unset"],
         pass |-> FALSE]

-----------------------------------------------------------------------------
(* Counts: one file, one rule, every small entry, code and lock. *)
CountEntries ==
  {CountOnly(n) : n \in 1..3} \cup {Lists(k, n) : k \in {a, b}, n \in 1..2}
    \cup {ListsBoth(n, m) : n \in 1..2, m \in 1..2}
CountFiles == {EmptyFile} \cup OneSlot(<<f1, r1>>, CountEntries)
CountDisks == {Missing} \cup Whole(CountFiles)
CountLocks == {NoLock} \cup LockOf([r \in Rules |-> "ok"], CountFiles)
CountCode == SUBSET Violations
CountRules == {[r \in Rules |-> "ok"]}
CountOptions ==
  {[Line EXCEPT !.mode = m, !.named = {r1}, !.lock = l] :
     m \in {"check", "all", "rule", "prune"}, l \in BOOLEAN}
    \cup {[Line EXCEPT !.mode = "lock"], [Line EXCEPT !.pass = TRUE]}
CountPathOf == [v \in Violations |-> f1]
CountRuleOf == [v \in Violations |-> r1]
CountKeyOf == (v1 :> a) @@ (v2 :> a) @@ (v3 :> b) @@ (v4 :> NoKey)

(* Every pair of runs one after the other; at the same time, and with runs *)
(* that are killed, those that record everything or write a lock.          *)
CountRestorable == {Missing} \cup Whole({EmptyFile})
RunSymmetry == Permutations(Runs)
Races(p) == pc[p] = "idle" \/ opts[p].mode = "lock" \/ opts[p] = [Line EXCEPT !.mode = "all", !.named = {r1}]
CountConstraint ==
  \/ faults = 0 /\ Cardinality({p \in Runs : pc[p] # "idle"}) <= 1
  \/ present = Violations /\ \A p \in Runs : Races(p)

-----------------------------------------------------------------------------
(* Rules: two files, two rules that fail in every way, two scopes. *)
RuleFiles == {EmptyFile} \cup OneSlot(<<f1, r1>>, {CountOnly(1)})
  \cup {(<<f1, r1>> :> Lists(a, 1)) @@ (<<f2, r2>> :> CountOnly(2))}
RuleDisks == {Missing} \cup Whole(RuleFiles)
RuleLocks == {NoLock} \cup LockOf([r \in Rules |-> "ok"], {(<<f1, r1>> :> CountOnly(1))})
RuleCode == {Violations}
RuleRules == [Rules -> RuleStatus]
RuleOptions ==
  {[Line EXCEPT !.mode = m, !.named = {r1}, !.lock = l, !.severity[r2] = s] :
     m \in {"check", "all", "rule", "prune"}, l \in BOOLEAN, s \in Severities}
    \cup {[Line EXCEPT !.mode = m, !.files = {f1}, !.rules = x, !.explicit = TRUE] :
            m \in {"check", "prune"}, x \in {{r1}, {r1, r2}}}
    \cup {[Line EXCEPT !.mode = "lock", !.explicit = e] : e \in BOOLEAN}
RulePathOf == (v1 :> f1) @@ (v2 :> f2)
RuleRuleOf == (v1 :> r1) @@ (v2 :> r2)
RuleKeyOf == (v1 :> a) @@ (v2 :> NoKey)

=============================================================================
