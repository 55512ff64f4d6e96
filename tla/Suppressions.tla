---------------------------- MODULE Suppressions ----------------------------
(***************************************************************************)
(* The suppressions file as a value, and the functions that load, apply,   *)
(* record, prune and limit it (suppressions/suppressions.go).              *)
(*                                                                         *)
(* A slot is a file of the workspace with a rule, the two keys of the JSON *)
(* object.  A suppressions file maps some slots to entries; an entry has a *)
(* count and may list entities, that is semantic keys with a count each.   *)
(* A candidate (an error-severity violation that has a location) is an     *)
(* element of Violations: it has a slot and a semantic key, or NoKey when  *)
(* its key is empty.  Everything else about a diagnostic is left out.      *)
(***************************************************************************)
EXTENDS Integers, FiniteSets

CONSTANTS
  Paths,        \* files of the workspace
  Rules,        \* rule ids
  Keys,         \* semantic keys
  NoKey,        \* the empty semantic key
  Violations,   \* every violation that the code may have
  PathOf,       \* the file, the rule and the semantic key of a violation
  RuleOf,
  KeyOf

ASSUME ViolationsAssumption ==
  /\ IsFiniteSet(Violations)
  /\ NoKey \notin Keys
  /\ PathOf \in [Violations -> Paths]
  /\ RuleOf \in [Violations -> Rules]
  /\ KeyOf \in [Violations -> Keys \cup {NoKey}]

Slots == Paths \X Rules

Slot(v) == <<PathOf[v], RuleOf[v]>>

NoEntities == [k \in {} |-> 0]

Listed(entry) == DOMAIN entry.entities

IsEntry(entry) ==
  /\ entry.count \in Nat
  /\ Listed(entry) \subseteq Keys /\ IsFiniteSet(Listed(entry))
  /\ \A k \in Listed(entry) : entry.entities[k] \in Nat

IsFile(file) ==
  /\ DOMAIN file \subseteq Slots
  /\ \A s \in DOMAIN file : IsEntry(file[s])

EmptyFile == [s \in {} |-> [count |-> 0, entities |-> NoEntities]]

(* The sum of the counts of entities, as a number of pairs: what a proof    *)
(* can compare with a number of violations.                                *)
Pairs(entities) == UNION {{k} \X (1..entities[k]) : k \in DOMAIN entities}

Total(entities) == Cardinality(Pairs(entities))

-----------------------------------------------------------------------------
(* What Parse accepts, beyond the JSON syntax. *)
Readable(file) ==
  \A s \in DOMAIN file :
    /\ file[s].count > 0
    /\ Listed(file[s]) # {} =>
         /\ \A k \in Listed(file[s]) : file[s].entities[k] > 0
         /\ Total(file[s].entities) = file[s].count

(* Mutant: a full selection covers every rule.                             *)
CoversRuleIgnoringKnown(scope, r) == r \in scope.rules \/ scope.allRulesLoaded

(* A scope has the analyzed files, the rules that were evaluated with      *)
(* severity error, the known rules, and whether every rule was loaded.     *)
CoversRule(scope, r) ==
  \/ r \in scope.rules
  \/ r \notin scope.known /\ scope.allRulesLoaded

Covers(scope, s) == s[1] \in scope.files /\ CoversRule(scope, s[2])

Group(found, s) == {v \in found : Slot(v) = s}

OfKey(found, s, k) == {v \in Group(found, s) : KeyOf[v] = k}

Allowed(entry, k) == IF k \in Listed(entry) THEN entry.entities[k] ELSE 0

(* An entry without entities allows all candidates of its slot or none of  *)
(* them; an entry with entities does so for each key.                      *)
Allows(entry, found, s, k) ==
  IF Listed(entry) = {}
  THEN Cardinality(Group(found, s)) <= entry.count
  ELSE Allowed(entry, k) > 0 /\ Cardinality(OfKey(found, s, k)) <= Allowed(entry, k)

Suppressed(file, found) ==
  {v \in found : Slot(v) \in DOMAIN file
                   /\ Allows(file[Slot(v)], found, Slot(v), KeyOf[v])}

(* What an entry allows and what there is, for each of its counters. *)
Counters(entry, found, s) ==
  IF Listed(entry) = {}
  THEN {[slot |-> s, entity |-> NoKey, allowed |-> entry.count,
         found |-> Cardinality(Group(found, s))]}
  ELSE {[slot |-> s, entity |-> k, allowed |-> entry.entities[k],
         found |-> Cardinality(OfKey(found, s, k))] : k \in Listed(entry)}

(* Mutant: only what is not used at all is unused. *)
WhollyUnusedOf(file, found, scope, s) ==
  {u \in Counters(file[s], found, s) : Covers(scope, s) /\ u.found = 0}

UnusedOf(file, found, scope, s) ==
  {u \in Counters(file[s], found, s) : Covers(scope, s) /\ u.found < u.allowed}

Unused(file, found, scope) ==
  UNION {UnusedOf(file, found, scope, s) : s \in DOMAIN file}

-----------------------------------------------------------------------------
(* Mutant: the empty key is listed as any other. *)
RecordedEntryWithEmptyKey(found, s) ==
  [count    |-> Cardinality(Group(found, s)),
   entities |-> [k \in {KeyOf[v] : v \in Group(found, s)} |->
                   Cardinality(OfKey(found, s, k))]]

(* The entry lists entities when every candidate of the slot has a key. *)
RecordedEntry(found, s) ==
  LET keys == {KeyOf[v] : v \in Group(found, s)}
  IN  [count    |-> Cardinality(Group(found, s)),
       entities |-> IF NoKey \in keys THEN NoEntities
                    ELSE [k \in keys |-> Cardinality(OfKey(found, s, k))]]

RecordedSlots(found, rules) == {Slot(v) : v \in {w \in found : RuleOf[w] \in rules}}

(* Mutant: an existing entry is kept. *)
RecordKeepingExisting(file, found, rules) ==
  [s \in DOMAIN file \cup RecordedSlots(found, rules) |->
     IF s \in DOMAIN file THEN file[s] ELSE RecordedEntry(found, s)]

Record(file, found, rules) ==
  [s \in DOMAIN file \cup RecordedSlots(found, rules) |->
     IF s \in RecordedSlots(found, rules) THEN RecordedEntry(found, s) ELSE file[s]]

(* Mutant: the count stays. *)
LoweredEntryKeepingCount(entry, found, s) ==
  LET kept == {k \in Listed(entry) : OfKey(found, s, k) # {}}
  IN  IF Listed(entry) = {}
      THEN [entry EXCEPT !.count = Cardinality(Group(found, s))]
      ELSE [count |-> IF kept = {} THEN 0 ELSE entry.count,
            entities |-> [k \in kept |-> Cardinality(OfKey(found, s, k))]]

(* Mutant: the lowered entry forgets its entities. *)
LoweredEntryWithoutEntities(entry, found, s) ==
  [count |-> Cardinality(Group(found, s)), entities |-> NoEntities]

(* Entities that are left with nothing go; the count is added up again. *)
LoweredEntry(entry, found, s) ==
  LET kept == {k \in Listed(entry) : OfKey(found, s, k) # {}}
      entities == [k \in kept |->
                     LET n == Cardinality(OfKey(found, s, k))
                     IN  IF n < entry.entities[k] THEN n ELSE entry.entities[k]]
  IN  IF Listed(entry) = {}
      THEN [entry EXCEPT !.count = Cardinality(Group(found, s))]
      ELSE [count |-> Total(entities), entities |-> entities]

Lowered(file, found, scope, s) ==
  IF UnusedOf(file, found, scope, s) = {} THEN file[s]
  ELSE LoweredEntry(file[s], found, s)

Emptied(file, found, scope, s) ==
  /\ UnusedOf(file, found, scope, s) # {}
  /\ LoweredEntry(file[s], found, s).count = 0

(* An entry of a file that was not analyzed and no longer exists. *)
Deleted(scope, existing, s) ==
  s[1] \notin scope.files \cup existing /\ CoversRule(scope, s[2])

Prune(file, found, scope, existing) ==
  [s \in {t \in DOMAIN file : ~Emptied(file, found, scope, t) /\ ~Deleted(scope, existing, t)} |->
     Lowered(file, found, scope, s)]

-----------------------------------------------------------------------------
(* Mutant: the count alone decides. *)
ExceedsLockByCount(entry, locked, s) ==
  \/ s \notin DOMAIN locked
  \/ entry.count > locked[s].count

(* An entry that allows more than the locked suppressions. *)
ExceedsLock(entry, locked, s) ==
  \/ s \notin DOMAIN locked
  \/ entry.count > locked[s].count
  \/ Listed(entry) = {} /\ Listed(locked[s]) # {}
  \/ /\ Listed(locked[s]) # {}
     /\ \E k \in Listed(entry) : entry.entities[k] > Allowed(locked[s], k)

LimitFailures(file, locked) == {s \in DOMAIN file : ExceedsLock(file[s], locked, s)}

(* Such an entry is replaced by the locked one, or goes if there is none. *)
Limit(file, locked) ==
  LET failures == LimitFailures(file, locked)
  IN  [s \in {t \in DOMAIN file : t \in failures => t \in DOMAIN locked} |->
         IF s \in failures THEN locked[s] ELSE file[s]]
=============================================================================
