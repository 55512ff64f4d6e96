------------------------- MODULE SuppressionsProofs -------------------------
(* What loading, applying, recording, pruning and limiting suppressions    *)
(* have to do with each other, for every file and every set of violations. *)
EXTENDS Suppressions, FiniteSetTheorems, TLAPS

-----------------------------------------------------------------------------
(* Counting. *)

LEMMA GroupsAreFinite ==
  ASSUME NEW found \in SUBSET Violations, NEW s, NEW k
  PROVE  /\ IsFiniteSet(Group(found, s)) /\ IsFiniteSet(OfKey(found, s, k))
         /\ Cardinality(Group(found, s)) \in Nat
         /\ Cardinality(OfKey(found, s, k)) \in Nat
         /\ Group(found, s) # {} => Cardinality(Group(found, s)) > 0
         /\ OfKey(found, s, k) # {} => Cardinality(OfKey(found, s, k)) > 0
         /\ Cardinality(OfKey(found, s, k)) > 0 => OfKey(found, s, k) # {}
<1>1. IsFiniteSet(Group(found, s)) /\ IsFiniteSet(OfKey(found, s, k))
  <2>1. Group(found, s) \subseteq Violations /\ OfKey(found, s, k) \subseteq Violations
    BY DEF Group, OfKey
  <2> QED BY <2>1, FS_Subset, ViolationsAssumption
<1> QED BY <1>1, FS_CardinalityType, FS_EmptySet, SMT

LEMMA TotalType ==
  ASSUME NEW e, IsFiniteSet(DOMAIN e), \A k \in DOMAIN e : e[k] \in Nat
  PROVE  /\ IsFiniteSet(Pairs(e))
         /\ Total(e) \in Nat
         /\ \A k \in DOMAIN e : e[k] > 0 => Total(e) > 0
         /\ DOMAIN e = {} => Total(e) = 0
<1> DEFINE rows == {{k} \X (1..e[k]) : k \in DOMAIN e}
<1>1. IsFiniteSet(rows)
  <2>1. PICK row : row = [k \in DOMAIN e |-> {k} \X (1..e[k])]
    OBVIOUS
  <2>2. row \in Surjection(DOMAIN e, rows)
    BY <2>1 DEF Surjection
  <2> QED BY <2>2, FS_Surjection
<1>2. ASSUME NEW k \in DOMAIN e PROVE IsFiniteSet({k} \X (1..e[k]))
  <2>1. 1 \in Int /\ e[k] \in Int
    OBVIOUS
  <2>2. IsFiniteSet(1..e[k])
    BY <2>1, FS_Interval
  <2>3. IsFiniteSet({k})
    BY FS_Singleton
  <2> QED BY <2>2, <2>3, FS_Product
<1>3. Pairs(e) = UNION rows
  BY DEF Pairs
<1>4. IsFiniteSet(Pairs(e))
  <2> HIDE DEF rows
  <2>1. \A row \in rows : IsFiniteSet(row)
    BY <1>2 DEF rows
  <2> QED BY <1>1, <1>3, <2>1, FS_UNION
<1>5. Total(e) \in Nat /\ (Total(e) = 0 <=> Pairs(e) = {})
  BY <1>4, FS_CardinalityType, FS_EmptySet DEF Total
<1>6. ASSUME NEW k \in DOMAIN e, e[k] > 0 PROVE Total(e) > 0
  <2>1. <<k, 1>> \in {k} \X (1..e[k])
    BY <1>6
  <2>2. Pairs(e) # {}
    BY <1>3, <2>1
  <2> QED BY <1>5, <2>2
<1>7. DOMAIN e = {} => Pairs(e) = {}
  BY <1>3
<1> QED BY <1>4, <1>5, <1>6, <1>7

(* Counts of entities that cover all candidates of a slot add up to at     *)
(* least their number, and to their number when they are exact.            *)
LEMMA GroupFits ==
  ASSUME NEW found \in SUBSET Violations, NEW s, NEW e,
         IsFiniteSet(DOMAIN e), \A k \in DOMAIN e : e[k] \in Nat,
         \A v \in Group(found, s) : KeyOf[v] \in DOMAIN e,
         \A k \in DOMAIN e : Cardinality(OfKey(found, s, k)) <= e[k]
  PROVE  /\ Cardinality(Group(found, s)) <= Total(e)
         /\ (\A k \in DOMAIN e : Cardinality(OfKey(found, s, k)) = e[k])
              => Cardinality(Group(found, s)) = Total(e)
<1> DEFINE group == Group(found, s)
           size(k) == Cardinality(OfKey(found, s, k))
<1>1. PICK b : /\ b = [k \in DOMAIN e |-> CHOOSE f : f \in Bijection(1..size(k), OfKey(found, s, k))]
  OBVIOUS
<1>2. ASSUME NEW k \in DOMAIN e
      PROVE  /\ size(k) \in Nat
             /\ b[k] \in Bijection(1..size(k), OfKey(found, s, k))
  <2>1. IsFiniteSet(OfKey(found, s, k)) /\ size(k) \in Nat
    BY GroupsAreFinite
  <2>2. \E f : f \in Bijection(1..size(k), OfKey(found, s, k))
    BY <2>1, FS_CardinalityType DEF ExistsBijection
  <2>3. b[k] = CHOOSE f : f \in Bijection(1..size(k), OfKey(found, s, k))
    BY <1>1
  <2> HIDE DEF size
  <2> QED BY <2>1, <2>2, <2>3
<1> DEFINE place(v) == CHOOSE i \in 1..size(KeyOf[v]) : b[KeyOf[v]][i] = v
<1>3. ASSUME NEW v \in group
      PROVE  /\ KeyOf[v] \in DOMAIN e
             /\ place(v) \in 1..size(KeyOf[v]) /\ b[KeyOf[v]][place(v)] = v
  <2>1. KeyOf[v] \in DOMAIN e /\ v \in OfKey(found, s, KeyOf[v])
    BY DEF OfKey
  <2>2. \E i \in 1..size(KeyOf[v]) : b[KeyOf[v]][i] = v
    BY <1>2, <2>1 DEF Bijection, Surjection
  <2> HIDE DEF size
  <2> QED BY <2>1, <2>2
<1>4. PICK h : h = [v \in group |-> <<KeyOf[v], place(v)>>]
  OBVIOUS
<1>5. h \in Injection(group, Pairs(e))
  <2>1. ASSUME NEW v \in group PROVE h[v] \in Pairs(e)
    <3>1. KeyOf[v] \in DOMAIN e /\ size(KeyOf[v]) \in Nat /\ size(KeyOf[v]) <= e[KeyOf[v]]
            /\ place(v) \in 1..size(KeyOf[v]) /\ e[KeyOf[v]] \in Nat
      BY <1>2, <1>3
    <3>2. h[v] = <<KeyOf[v], place(v)>>
      BY <1>4
    <3> HIDE DEF place, size
    <3>3. place(v) \in 1..e[KeyOf[v]]
      BY <3>1
    <3> QED BY <3>1, <3>2, <3>3 DEF Pairs
  <2>2. ASSUME NEW v \in group, NEW w \in group, h[v] = h[w] PROVE v = w
    <3>1. KeyOf[v] = KeyOf[w] /\ place(v) = place(w)
      <4> HIDE DEF place
      <4> QED BY <1>4, <2>2
    <3>2. b[KeyOf[v]][place(v)] = v /\ b[KeyOf[w]][place(w)] = w
      BY <1>3
    <3> HIDE DEF place
    <3> QED BY <3>1, <3>2
  <2>3. DOMAIN h = group /\ h = [v \in group |-> h[v]]
    BY <1>4
  <2> HIDE DEF group
  <2> QED BY <2>1, <2>2, <2>3 DEF Injection, IsInjective
<1>6. IsFiniteSet(Pairs(e)) /\ Total(e) \in Nat
  BY TotalType
<1>7. Cardinality(group) <= Total(e)
  BY <1>5, <1>6, FS_Injection DEF Total
<1>8. ASSUME \A k \in DOMAIN e : size(k) = e[k] PROVE Cardinality(group) = Total(e)
  <2>1. ASSUME NEW x \in Pairs(e) PROVE \E v \in group : h[v] = x
    <3>1. PICK k \in DOMAIN e : x \in {k} \X (1..e[k])
      BY DEF Pairs
    <3>2. PICK i \in 1..size(k) : x = <<k, i>>
      BY <1>8, <3>1
    <3>3. b[k][i] \in OfKey(found, s, k) /\ b[k] \in Bijection(1..size(k), OfKey(found, s, k))
      BY <1>2 DEF Bijection, Surjection
    <3>4. b[k][i] \in group /\ KeyOf[b[k][i]] = k
      BY <3>3 DEF OfKey
    <3>5. place(b[k][i]) \in 1..size(k) /\ b[k][place(b[k][i])] = b[k][i]
      BY <1>3, <3>4
    <3>6. place(b[k][i]) = i
      <4> HIDE DEF place, size
      <4> QED BY <3>3, <3>5 DEF Bijection, Injection, IsInjective
    <3> HIDE DEF place, size, group
    <3> QED BY <1>4, <3>2, <3>4, <3>6
  <2>2. h \in Surjection(group, Pairs(e))
    <3> HIDE DEF group
    <3> QED BY <1>5, <2>1 DEF Injection, Surjection
  <2> QED BY <1>5, <1>6, <2>2, FS_Injection DEF Total
<1> QED BY <1>7, <1>8

-----------------------------------------------------------------------------
(* Recording. *)

(* A candidate of a recorded rule is suppressed by what was recorded. *)
LEMMA RecordedIsSuppressed ==
  ASSUME NEW found \in SUBSET Violations, NEW rules, NEW old,
         NEW v \in found, RuleOf[v] \in rules
  PROVE  v \in Suppressed(Record(old, found, rules), found)
<1> DEFINE s == Slot(v)
           keys == {KeyOf[w] : w \in Group(found, s)}
           entry == RecordedEntry(found, s)
<1>1. s \in RecordedSlots(found, rules)
  BY DEF RecordedSlots
<1>2. s \in DOMAIN Record(old, found, rules) /\ Record(old, found, rules)[s] = entry
  BY <1>1 DEF Record
<1>3. KeyOf[v] \in keys /\ v \in OfKey(found, s, KeyOf[v])
  BY DEF Group, OfKey
<1>4. Allows(entry, found, s, KeyOf[v])
  <2>1. CASE NoKey \in keys
    <3>1. Listed(entry) = {} /\ entry.count = Cardinality(Group(found, s))
      BY <2>1 DEF RecordedEntry, Listed, NoEntities
    <3> QED BY <3>1, GroupsAreFinite DEF Allows
  <2>2. CASE NoKey \notin keys
    <3>1. entry.entities = [k \in keys |-> Cardinality(OfKey(found, s, k))]
      BY <2>2 DEF RecordedEntry
    <3>2. Listed(entry) = keys
      BY <3>1 DEF Listed
    <3>3. Allowed(entry, KeyOf[v]) = Cardinality(OfKey(found, s, KeyOf[v]))
      BY <3>1, <3>2, <1>3 DEF Allowed
    <3>4. Cardinality(OfKey(found, s, KeyOf[v])) \in Nat \ {0}
      BY <1>3, GroupsAreFinite
    <3> HIDE DEF keys, entry
    <3> QED BY <3>2, <3>3, <3>4, <1>3 DEF Allows
  <2> QED BY <2>1, <2>2
<1> QED BY <1>2, <1>4 DEF Suppressed

(* Recording leaves the entries of rules that found nothing. *)
LEMMA RecordKeeps ==
  ASSUME NEW found, NEW rules, NEW old, NEW s \in DOMAIN old,
         \A v \in found : RuleOf[v] # s[2]
  PROVE  /\ s \in DOMAIN Record(old, found, rules)
         /\ Record(old, found, rules)[s] = old[s]
<1>1. s \notin RecordedSlots(found, rules)
  BY DEF RecordedSlots, Slot
<1> QED BY <1>1 DEF Record

(* What Parse accepts of one entry. *)
GoodEntry(entry) ==
  /\ IsEntry(entry) /\ entry.count > 0
  /\ Listed(entry) # {} => \A k \in Listed(entry) : entry.entities[k] > 0
  /\ Listed(entry) # {} => Total(entry.entities) = entry.count

GoodFile(file) == IsFile(file) /\ Readable(file)

LEMMA GoodFileEntries ==
  ASSUME NEW file
  PROVE  GoodFile(file) <=>
           DOMAIN file \subseteq Slots /\ \A s \in DOMAIN file : GoodEntry(file[s])
BY DEF GoodFile, GoodEntry, IsFile, Readable

(* An entry that lists entities lists all of them: the keys are none empty *)
(* and the counts add up.                                                  *)
LEMMA RecordedEntryIsGood ==
  ASSUME NEW found \in SUBSET Violations, NEW s, Group(found, s) # {}
  PROVE  GoodEntry(RecordedEntry(found, s))
<1> DEFINE keys == {KeyOf[v] : v \in Group(found, s)}
           entry == RecordedEntry(found, s)
           counts == [k \in keys |-> Cardinality(OfKey(found, s, k))]
<1>1. entry.count = Cardinality(Group(found, s)) /\ entry.count \in Nat /\ entry.count > 0
  BY GroupsAreFinite DEF RecordedEntry
<1>2. CASE NoKey \in keys
  <2>1. entry.entities = NoEntities
    BY <1>2 DEF RecordedEntry
  <2>2. Listed(entry) = {}
    BY <2>1 DEF Listed, NoEntities
  <2> HIDE DEF entry
  <2>3. GoodEntry(entry)
    BY <1>1, <2>2, FS_EmptySet DEF GoodEntry, IsEntry
  <2> QED BY <2>3 DEF entry
<1>3. CASE NoKey \notin keys
  <2>1. entry.entities = counts
    BY <1>3 DEF RecordedEntry
  <2>2. Listed(entry) = keys /\ DOMAIN counts = keys
    BY <2>1 DEF Listed
  <2>3. keys \subseteq Keys
    BY <1>3, ViolationsAssumption DEF Group
  <2>4. IsFiniteSet(keys)
    <3>1. PICK key : key = [v \in Group(found, s) |-> KeyOf[v]]
      OBVIOUS
    <3>2. key \in Surjection(Group(found, s), keys)
      BY <3>1 DEF Surjection
    <3> QED BY <3>2, FS_Surjection, GroupsAreFinite
  <2>5. ASSUME NEW k \in keys
        PROVE  counts[k] \in Nat /\ counts[k] > 0 /\ Cardinality(OfKey(found, s, k)) = counts[k]
    <3>1. PICK v \in Group(found, s) : KeyOf[v] = k
      OBVIOUS
    <3>2. v \in OfKey(found, s, k)
      BY <3>1 DEF OfKey
    <3> QED BY <3>2, GroupsAreFinite
  <2>6. \A v \in Group(found, s) : KeyOf[v] \in DOMAIN counts
    BY <2>2
  <2> HIDE DEF keys, counts, entry
  <2>7. Cardinality(Group(found, s)) = Total(counts)
    BY <2>2, <2>4, <2>5, <2>6, GroupFits
  <2>8. IsEntry(entry)
    BY <1>1, <2>1, <2>2, <2>3, <2>4, <2>5 DEF IsEntry
  <2>9. GoodEntry(entry)
    BY <1>1, <2>1, <2>2, <2>5, <2>7, <2>8 DEF GoodEntry
  <2> QED BY <2>9 DEF entry
<1> QED BY <1>2, <1>3

(* Theorem: what Record makes of a file that Parse accepted is a file that *)
(* Parse accepts.                                                          *)
THEOREM RecordIsGood ==
  ASSUME NEW file, GoodFile(file), NEW found \in SUBSET Violations, NEW rules
  PROVE  GoodFile(Record(file, found, rules))
<1> DEFINE new == Record(file, found, rules)
<1>1. DOMAIN new = DOMAIN file \cup RecordedSlots(found, rules)
  BY DEF Record
<1>2. ASSUME NEW s \in RecordedSlots(found, rules)
      PROVE  s \in Slots /\ GoodEntry(new[s])
  <2>1. PICK v \in found : s = Slot(v)
    BY DEF RecordedSlots
  <2>2. s \in Slots
    BY <2>1, ViolationsAssumption DEF Slot, Slots
  <2>3. Group(found, s) # {}
    BY <2>1 DEF Group
  <2>4. new[s] = RecordedEntry(found, s)
    BY DEF Record
  <2> QED BY <2>2, <2>3, <2>4, RecordedEntryIsGood
<1>3. ASSUME NEW s \in DOMAIN file, s \notin RecordedSlots(found, rules)
      PROVE  s \in Slots /\ GoodEntry(new[s])
  <2>1. new[s] = file[s]
    BY <1>3 DEF Record
  <2> QED BY <2>1, GoodFileEntries
<1> HIDE DEF new
<1>4. DOMAIN new \subseteq Slots /\ \A s \in DOMAIN new : GoodEntry(new[s])
  BY <1>1, <1>2, <1>3
<1> QED BY <1>4, GoodFileEntries DEF new

-----------------------------------------------------------------------------
(* Pruning. *)

(* Pruning leaves the entries of rules that the scope does not cover. *)
LEMMA PruneKeeps ==
  ASSUME NEW found, NEW scope, NEW existing, NEW old, NEW s \in DOMAIN old,
         ~CoversRule(scope, s[2])
  PROVE  /\ s \in DOMAIN Prune(old, found, scope, existing)
         /\ Prune(old, found, scope, existing)[s] = old[s]
<1>1. UnusedOf(old, found, scope, s) = {}
  BY DEF UnusedOf, Covers
<1>2. ~Emptied(old, found, scope, s) /\ ~Deleted(scope, existing, s)
  BY <1>1 DEF Emptied, Deleted
<1>3. Lowered(old, found, scope, s) = old[s]
  BY <1>1 DEF Lowered
<1> QED BY <1>2, <1>3 DEF Prune

(* The lowered entry of a count is the number found.                       *)
LEMMA LoweredCount ==
  ASSUME NEW entry, GoodEntry(entry), Listed(entry) = {},
         NEW found \in SUBSET Violations, NEW s
  PROVE  /\ LoweredEntry(entry, found, s).count = Cardinality(Group(found, s))
         /\ Listed(LoweredEntry(entry, found, s)) = {}
BY DEF LoweredEntry, Listed

(* The lowered entry of a list has the keys that were found, each with the *)
(* smaller of the two counts; it is nothing when none was found.           *)
LEMMA LoweredList ==
  ASSUME NEW entry, GoodEntry(entry), Listed(entry) # {},
         NEW found \in SUBSET Violations, NEW s
  PROVE  LET low == LoweredEntry(entry, found, s)
         IN  /\ Listed(low) = {k \in Listed(entry) : OfKey(found, s, k) # {}}
             /\ \A k \in Listed(low) :
                  /\ low.entities[k] \in Nat /\ low.entities[k] > 0
                  /\ low.entities[k] <= Cardinality(OfKey(found, s, k))
                  /\ low.entities[k] <= entry.entities[k]
                  /\ low.entities[k] \in {Cardinality(OfKey(found, s, k)), entry.entities[k]}
             /\ low.count = Total(low.entities) /\ low.count \in Nat
             /\ IsFiniteSet(Listed(low))
             /\ low.count = 0 <=> Listed(low) = {}
<1> DEFINE low == LoweredEntry(entry, found, s)
           kept == {k \in Listed(entry) : OfKey(found, s, k) # {}}
           size(k) == Cardinality(OfKey(found, s, k))
           counts == [k \in kept |-> IF size(k) < entry.entities[k] THEN size(k)
                                     ELSE entry.entities[k]]
<1>1. low = [count |-> Total(counts), entities |-> counts]
  BY DEF LoweredEntry
<1>2. ASSUME NEW k \in kept
      PROVE  /\ counts[k] \in Nat /\ counts[k] > 0
             /\ counts[k] <= size(k) /\ counts[k] <= entry.entities[k]
             /\ counts[k] \in {size(k), entry.entities[k]}
  <2>1. size(k) \in Nat /\ size(k) > 0
    BY GroupsAreFinite
  <2>2. entry.entities[k] \in Nat /\ entry.entities[k] > 0
    BY DEF GoodEntry, IsEntry
  <2> HIDE DEF size
  <2> QED BY <2>1, <2>2
<1>3. IsFiniteSet(kept)
  <2>1. kept \in SUBSET Listed(entry)
    OBVIOUS
  <2> HIDE DEF kept
  <2> QED BY <2>1, FS_Subset DEF GoodEntry, IsEntry
<1>4. DOMAIN counts = kept
  OBVIOUS
<1> HIDE DEF low, counts, kept
<1>5. Total(counts) \in Nat /\ (Total(counts) = 0 <=> kept = {})
  <2>1. \A k \in DOMAIN counts : counts[k] \in Nat /\ counts[k] > 0
    BY <1>2, <1>4
  <2>2. IsFiniteSet(DOMAIN counts)
    BY <1>3, <1>4
  <2>3. /\ Total(counts) \in Nat
        /\ \A k \in DOMAIN counts : counts[k] > 0 => Total(counts) > 0
        /\ DOMAIN counts = {} => Total(counts) = 0
    BY <2>1, <2>2, TotalType
  <2> QED BY <1>4, <2>1, <2>3
<1>6. low.entities = counts /\ Listed(low) = kept /\ low.count = Total(counts)
  BY <1>1, <1>4 DEF Listed
<1> QED BY <1>2, <1>3, <1>5, <1>6 DEF low, kept

LEMMA LoweredIsGood ==
  ASSUME NEW entry, GoodEntry(entry), NEW found \in SUBSET Violations, NEW s,
         LoweredEntry(entry, found, s).count # 0
  PROVE  GoodEntry(LoweredEntry(entry, found, s))
<1> DEFINE low == LoweredEntry(entry, found, s)
<1>1. CASE Listed(entry) = {}
  <2>1. low.count = Cardinality(Group(found, s)) /\ Listed(low) = {} /\ low.count # 0
    BY <1>1, LoweredCount
  <2> HIDE DEF low
  <2>2. low.count \in Nat /\ low.count > 0
    BY <2>1, GroupsAreFinite
  <2>3. GoodEntry(low)
    BY <2>1, <2>2, FS_EmptySet DEF GoodEntry, IsEntry
  <2> QED BY <2>3 DEF low
<1>2. CASE Listed(entry) # {}
  <2>1. /\ Listed(low) \subseteq Listed(entry) /\ IsFiniteSet(Listed(low))
        /\ \A k \in Listed(low) : low.entities[k] \in Nat /\ low.entities[k] > 0
        /\ low.count = Total(low.entities) /\ low.count \in Nat
    BY <1>2, LoweredList
  <2>2. low.count > 0
    BY <2>1
  <2>3. Listed(entry) \subseteq Keys
    BY DEF GoodEntry, IsEntry
  <2> HIDE DEF low
  <2>4. GoodEntry(low)
    BY <2>1, <2>2, <2>3 DEF GoodEntry, IsEntry
  <2> QED BY <2>4 DEF low
<1> QED BY <1>1, <1>2

(* Theorem: what Prune makes of a file that Parse accepted is a file that  *)
(* Parse accepts.                                                          *)
THEOREM PruneIsGood ==
  ASSUME NEW file, GoodFile(file), NEW found \in SUBSET Violations, NEW scope, NEW existing
  PROVE  GoodFile(Prune(file, found, scope, existing))
<1> DEFINE new == Prune(file, found, scope, existing)
<1>1. DOMAIN new \subseteq DOMAIN file
  BY DEF Prune
<1>2. ASSUME NEW s \in DOMAIN new PROVE s \in Slots /\ GoodEntry(new[s])
  <2>1. s \in DOMAIN file /\ ~Emptied(file, found, scope, s) /\ new[s] = Lowered(file, found, scope, s)
    BY DEF Prune
  <2>2. s \in Slots /\ GoodEntry(file[s])
    BY <2>1, GoodFileEntries
  <2> HIDE DEF new
  <2>3. CASE UnusedOf(file, found, scope, s) = {}
    BY <2>1, <2>2, <2>3 DEF Lowered
  <2>4. CASE UnusedOf(file, found, scope, s) # {}
    <3>1. new[s] = LoweredEntry(file[s], found, s) /\ LoweredEntry(file[s], found, s).count # 0
      BY <2>1, <2>4 DEF Lowered, Emptied
    <3> QED BY <2>2, <3>1, LoweredIsGood
  <2> QED BY <2>3, <2>4
<1> HIDE DEF new
<1>3. DOMAIN new \subseteq Slots /\ \A s \in DOMAIN new : GoodEntry(new[s])
  BY <1>2
<1> QED BY <1>3, GoodFileEntries DEF new

(* A lowered entry allows a candidate that there is exactly when the entry *)
(* did.                                                                    *)
LEMMA LoweredAllowsTheSame ==
  ASSUME NEW entry, GoodEntry(entry), NEW found \in SUBSET Violations, NEW s, NEW v \in Group(found, s),
         \E u \in Counters(entry, found, s) : u.found < u.allowed
  PROVE  LET low == LoweredEntry(entry, found, s)
         IN  Allows(entry, found, s, KeyOf[v]) <=>
               low.count # 0 /\ Allows(low, found, s, KeyOf[v])
<1> DEFINE low == LoweredEntry(entry, found, s)
           k == KeyOf[v]
           size == Cardinality(OfKey(found, s, k))
<1>1. CASE Listed(entry) = {}
  <2>1. low.count = Cardinality(Group(found, s)) /\ Listed(low) = {}
    BY <1>1, LoweredCount
  <2>2. Cardinality(Group(found, s)) < entry.count
    BY <1>1 DEF Counters
  <2>3. Cardinality(Group(found, s)) \in Nat /\ Cardinality(Group(found, s)) > 0 /\ entry.count \in Nat
    BY GroupsAreFinite DEF GoodEntry, IsEntry
  <2> HIDE DEF low
  <2>4. Allows(entry, found, s, k) /\ low.count # 0 /\ Allows(low, found, s, k)
    BY <1>1, <2>1, <2>2, <2>3 DEF Allows
  <2> QED BY <2>4 DEF low
<1>2. CASE Listed(entry) # {} /\ k \notin Listed(entry)
  <2>1. ~Allows(entry, found, s, k)
    BY <1>2 DEF Allows, Allowed
  <2>2. k \notin Listed(low) /\ (low.count = 0 <=> Listed(low) = {})
    BY <1>2, LoweredList
  <2> HIDE DEF low
  <2>3. low.count # 0 => ~Allows(low, found, s, k)
    BY <2>2 DEF Allows, Allowed
  <2> QED BY <2>1, <2>3 DEF low
<1>3. CASE k \in Listed(entry)
  <2>1. OfKey(found, s, k) # {} /\ size \in Nat /\ size > 0
    <3>1. v \in OfKey(found, s, k)
      BY DEF OfKey
    <3> QED BY <3>1, GroupsAreFinite
  <2>2. /\ k \in Listed(low) /\ low.count # 0
        /\ low.entities[k] \in Nat /\ low.entities[k] > 0
        /\ low.entities[k] <= size /\ low.entities[k] <= entry.entities[k]
        /\ low.entities[k] \in {size, entry.entities[k]}
    BY <1>3, <2>1, LoweredList
  <2>3. entry.entities[k] \in Nat /\ entry.entities[k] > 0
    BY <1>3 DEF GoodEntry, IsEntry
  <2>4. Allows(entry, found, s, k) <=> size <= entry.entities[k]
    BY <1>3, <2>3 DEF Allows, Allowed
  <2>5. Allows(low, found, s, k) <=> size <= low.entities[k]
    <3> HIDE DEF low
    <3> QED BY <2>2 DEF Allows, Allowed
  <2>6. size <= entry.entities[k] <=> size <= low.entities[k]
    <3> HIDE DEF low, size
    <3> QED BY <2>1, <2>2, <2>3
  <2> QED BY <2>2, <2>4, <2>5, <2>6
<1> QED BY <1>1, <1>2, <1>3

(* Theorem: pruning hides the violations that the file hid, no more and no *)
(* fewer, when all that was found is in the files of the scope.            *)
THEOREM PruneHidesTheSame ==
  ASSUME NEW file, GoodFile(file), NEW found \in SUBSET Violations, NEW scope, NEW existing,
         \A v \in found : PathOf[v] \in scope.files
  PROVE  Suppressed(Prune(file, found, scope, existing), found) = Suppressed(file, found)
<1> DEFINE new == Prune(file, found, scope, existing)
<1>1. ASSUME NEW v \in found
      PROVE  v \in Suppressed(new, found) <=> v \in Suppressed(file, found)
  <2> DEFINE s == Slot(v)
             old == file[s]
             k == KeyOf[v]
  <2>1. ~Deleted(scope, existing, s)
    BY DEF Deleted, Slot
  <2>2. s \in DOMAIN new <=> s \in DOMAIN file /\ ~Emptied(file, found, scope, s)
    BY <2>1 DEF Prune
  <2>3. s \in DOMAIN new => new[s] = Lowered(file, found, scope, s)
    BY DEF Prune
  <2>4. CASE s \notin DOMAIN file \/ UnusedOf(file, found, scope, s) = {}
    <3>1. s \in DOMAIN new <=> s \in DOMAIN file
      BY <2>2, <2>4 DEF Emptied
    <3>2. s \in DOMAIN new => new[s] = file[s]
      BY <2>2, <2>3, <2>4 DEF Lowered
    <3> HIDE DEF new
    <3> QED BY <3>1, <3>2 DEF Suppressed
  <2>5. CASE s \in DOMAIN file /\ UnusedOf(file, found, scope, s) # {}
    <3> DEFINE low == LoweredEntry(old, found, s)
    <3>1. v \in Group(found, s) /\ GoodEntry(old)
      BY <2>5, GoodFileEntries DEF Group
    <3>2. \E u \in Counters(old, found, s) : u.found < u.allowed
      BY <2>5 DEF UnusedOf
    <3>3. Allows(old, found, s, k) <=> low.count # 0 /\ Allows(low, found, s, k)
      <4> HIDE DEF s
      <4> QED BY <3>1, <3>2, LoweredAllowsTheSame
    <3>4. s \in DOMAIN new <=> low.count # 0
      BY <2>2, <2>5 DEF Emptied
    <3>5. s \in DOMAIN new => new[s] = low
      BY <2>3, <2>5 DEF Lowered
    <3>6. v \in Suppressed(new, found) <=> s \in DOMAIN new /\ Allows(new[s], found, s, k)
      BY DEF Suppressed
    <3>7. v \in Suppressed(file, found) <=> Allows(old, found, s, k)
      BY <2>5 DEF Suppressed
    <3> HIDE DEF new, low, s, k, old
    <3> QED BY <3>3, <3>4, <3>5, <3>6, <3>7
  <2> QED BY <2>4, <2>5
<1>2. Suppressed(new, found) \subseteq found /\ Suppressed(file, found) \subseteq found
  BY DEF Suppressed
<1> HIDE DEF new
<1>3. Suppressed(new, found) = Suppressed(file, found)
  BY <1>1, <1>2
<1> QED BY <1>3 DEF new

(* Theorem: what pruning leaves is used, for the scope it was pruned for.  *)
THEOREM PruneLeavesNothingUnused ==
  ASSUME NEW file, GoodFile(file), NEW found \in SUBSET Violations, NEW scope, NEW existing
  PROVE  Unused(Prune(file, found, scope, existing), found, scope) = {}
<1> DEFINE new == Prune(file, found, scope, existing)
<1>1. ASSUME NEW s \in DOMAIN new PROVE UnusedOf(new, found, scope, s) = {}
  <2>1. s \in DOMAIN file /\ ~Emptied(file, found, scope, s) /\ new[s] = Lowered(file, found, scope, s)
    BY DEF Prune
  <2>2. GoodEntry(file[s])
    BY <2>1, GoodFileEntries
  <2> HIDE DEF new
  <2>3. CASE UnusedOf(file, found, scope, s) = {}
    BY <2>1, <2>3 DEF Lowered, UnusedOf
  <2>4. CASE UnusedOf(file, found, scope, s) # {}
    <3> DEFINE low == LoweredEntry(file[s], found, s)
    <3>1. new[s] = low /\ low.count # 0
      BY <2>1, <2>4 DEF Lowered, Emptied
    <3>2. ASSUME NEW u \in Counters(low, found, s) PROVE ~(u.found < u.allowed)
      <4>1. CASE Listed(file[s]) = {}
        <5>1. low.count = Cardinality(Group(found, s)) /\ Listed(low) = {}
          BY <2>2, <4>1, LoweredCount
        <5> HIDE DEF low
        <5>2. u.found = low.count /\ u.allowed = low.count
          BY <3>2, <5>1 DEF Counters
        <5>3. low.count \in Nat
          BY <5>1, GroupsAreFinite
        <5> QED BY <5>2, <5>3
      <4>2. CASE Listed(file[s]) # {}
        <5>1. Listed(low) # {}
          BY <2>2, <3>1, <4>2, LoweredList
        <5>2. PICK k \in Listed(low) :
                 u.allowed = low.entities[k] /\ u.found = Cardinality(OfKey(found, s, k))
          <6> HIDE DEF low
          <6> QED BY <3>2, <5>1 DEF Counters
        <5>3. low.entities[k] \in Nat /\ low.entities[k] <= Cardinality(OfKey(found, s, k))
          BY <2>2, <4>2, LoweredList
        <5>4. Cardinality(OfKey(found, s, k)) \in Nat
          BY GroupsAreFinite
        <5> HIDE DEF low
        <5> QED BY <5>2, <5>3, <5>4
      <4> QED BY <4>1, <4>2
    <3> QED BY <3>1, <3>2 DEF UnusedOf
  <2> QED BY <2>3, <2>4
<1> HIDE DEF new
<1>2. Unused(new, found, scope) = {}
  BY <1>1 DEF Unused
<1> QED BY <1>2 DEF new

-----------------------------------------------------------------------------
(* What is suppressed, what is unused and what a lock allows. *)

(* Without failures the limit is the file itself. *)
LEMMA UnlimitedIsWhole ==
  ASSUME NEW f, NEW locked, NEW found, NEW scope, LimitFailures(f, locked) = {}
  PROVE  /\ Suppressed(Limit(f, locked), found) = Suppressed(f, found)
         /\ Unused(Limit(f, locked), found, scope) = Unused(f, found, scope)
<1> DEFINE limit == Limit(f, locked)
<1>1. DOMAIN limit = DOMAIN f /\ \A s \in DOMAIN f : limit[s] = f[s]
  BY DEF Limit
<1> HIDE DEF limit
<1>2. Suppressed(limit, found) = Suppressed(f, found)
  BY <1>1 DEF Suppressed
<1>3. \A s \in DOMAIN f : UnusedOf(limit, found, scope, s) = UnusedOf(f, found, scope, s)
  BY <1>1 DEF UnusedOf
<1>4. Unused(limit, found, scope) = Unused(f, found, scope)
  BY <1>1, <1>3 DEF Unused
<1> QED BY <1>2, <1>4 DEF limit

(* An entry that lists entities and allows every candidate of its slot     *)
(* counts at least as many as there are, and as many when all counts are   *)
(* exact.                                                                  *)
LEMMA ListedEntryFits ==
  ASSUME NEW entry, GoodEntry(entry), Listed(entry) # {},
         NEW found \in SUBSET Violations, NEW s,
         \A v \in Group(found, s) : Allows(entry, found, s, KeyOf[v])
  PROVE  /\ \A k \in Listed(entry) : Cardinality(OfKey(found, s, k)) <= entry.entities[k]
         /\ Cardinality(Group(found, s)) <= entry.count
         /\ (\A k \in Listed(entry) : Cardinality(OfKey(found, s, k)) = entry.entities[k])
              => Cardinality(Group(found, s)) = entry.count
<1> DEFINE e == entry.entities
<1>1. DOMAIN e = Listed(entry) /\ IsFiniteSet(DOMAIN e) /\ \A k \in DOMAIN e : e[k] \in Nat
  BY DEF GoodEntry, IsEntry, Listed
<1>2. \A v \in Group(found, s) : KeyOf[v] \in DOMAIN e
  BY <1>1 DEF Allows, Allowed
<1>3. ASSUME NEW k \in DOMAIN e PROVE Cardinality(OfKey(found, s, k)) <= e[k]
  <2>1. CASE OfKey(found, s, k) = {}
    BY <1>1, <2>1, FS_EmptySet
  <2>2. CASE OfKey(found, s, k) # {}
    <3>1. PICK v \in Group(found, s) : KeyOf[v] = k
      BY <2>2 DEF OfKey
    <3> QED BY <1>1, <3>1 DEF Allows, Allowed
  <2> QED BY <2>1, <2>2
<1>4. entry.count = Total(e)
  BY DEF GoodEntry
<1> HIDE DEF e
<1>5. /\ Cardinality(Group(found, s)) <= Total(e)
      /\ (\A k \in DOMAIN e : Cardinality(OfKey(found, s, k)) = e[k])
           => Cardinality(Group(found, s)) = Total(e)
  BY <1>1, <1>2, <1>3, GroupFits
<1> QED BY <1>1, <1>3, <1>4, <1>5 DEF e

(* Theorem: when a file does not exceed the lock and hides all that was    *)
(* found, the locked suppressions hide it too.                             *)
THEOREM WithinTheLockIsLocked ==
  ASSUME NEW file, GoodFile(file), NEW locked, GoodFile(locked),
         NEW found \in SUBSET Violations,
         LimitFailures(file, locked) = {}, found \subseteq Suppressed(file, found)
  PROVE  found \subseteq Suppressed(locked, found)
<1> SUFFICES ASSUME NEW v \in found PROVE v \in Suppressed(locked, found)
  OBVIOUS
<1> DEFINE s == Slot(v)
           k == KeyOf[v]
<1>1. s \in DOMAIN file /\ ~ExceedsLock(file[s], locked, s)
  BY DEF Suppressed, LimitFailures
<1>2. s \in DOMAIN locked /\ GoodEntry(file[s]) /\ GoodEntry(locked[s])
  BY <1>1, GoodFileEntries DEF ExceedsLock
<1>3. \A w \in Group(found, s) : Allows(file[s], found, s, KeyOf[w])
  BY DEF Suppressed, Group
<1>4. v \in Group(found, s) /\ Cardinality(Group(found, s)) \in Nat
        /\ Cardinality(OfKey(found, s, k)) \in Nat
  BY GroupsAreFinite DEF Group
<1> DEFINE entry == file[s]
           limit == locked[s]
<1>5. entry.count \in Nat /\ limit.count \in Nat /\ entry.count <= limit.count
  BY <1>1, <1>2 DEF ExceedsLock, GoodEntry, IsEntry
<1>6. Allows(limit, found, s, k)
  <2>1. CASE Listed(limit) = {}
    <3>1. Cardinality(Group(found, s)) <= entry.count
      <4>1. CASE Listed(entry) = {}
        BY <1>3, <1>4, <4>1 DEF Allows
      <4>2. CASE Listed(entry) # {}
        BY <1>2, <1>3, <4>2, ListedEntryFits
      <4> QED BY <4>1, <4>2
    <3> HIDE DEF entry, limit, s, k
    <3> QED BY <1>4, <1>5, <2>1, <3>1 DEF Allows
  <2>2. CASE Listed(limit) # {}
    <3>1. Listed(entry) # {}
      BY <1>1, <1>2, <2>2 DEF ExceedsLock
    <3>2. Allowed(entry, k) > 0 /\ Cardinality(OfKey(found, s, k)) <= Allowed(entry, k)
      BY <1>3, <1>4, <3>1 DEF Allows
    <3>3. k \in Listed(entry) /\ Allowed(entry, k) = entry.entities[k] /\ entry.entities[k] \in Nat
      <4>1. k \in Listed(entry)
        BY <3>2 DEF Allowed
      <4> QED BY <4>1, <1>2 DEF Allowed, GoodEntry, IsEntry
    <3>4. Allowed(limit, k) \in Nat
      BY <1>2 DEF Allowed, GoodEntry, IsEntry
    <3>5. ~(entry.entities[k] > Allowed(limit, k))
      BY <1>1, <1>2, <2>2, <3>3 DEF ExceedsLock
    <3>6. Allowed(limit, k) > 0 /\ Cardinality(OfKey(found, s, k)) <= Allowed(limit, k)
      <4> HIDE DEF entry, limit, s, k
      <4> QED BY <1>4, <3>2, <3>3, <3>4, <3>5
    <3> QED BY <2>2, <3>6 DEF Allows
  <2> QED BY <2>1, <2>2
<1> QED BY <1>2, <1>6 DEF Suppressed

(* Theorem: when a file hides all that was found and nothing of it is      *)
(* unused, every counter of a covered slot equals the number found.        *)
THEOREM UsedFileIsTight ==
  ASSUME NEW file, GoodFile(file), NEW found \in SUBSET Violations, NEW scope,
         found \subseteq Suppressed(file, found), Unused(file, found, scope) = {},
         NEW s \in DOMAIN file, Covers(scope, s)
  PROVE  /\ file[s].count = Cardinality(Group(found, s))
         /\ \A k \in Listed(file[s]) :
              file[s].entities[k] = Cardinality(OfKey(found, s, k))
<1> DEFINE entry == file[s]
<1>1. GoodEntry(entry)
  BY GoodFileEntries
<1>2. \A v \in Group(found, s) : Allows(entry, found, s, KeyOf[v])
  BY DEF Suppressed, Group
<1>3. \A u \in Counters(entry, found, s) : ~(u.found < u.allowed)
  <2>1. UnusedOf(file, found, scope, s) = {}
    BY DEF Unused
  <2> QED BY <2>1 DEF UnusedOf
<1>4. Cardinality(Group(found, s)) \in Nat /\ entry.count \in Nat /\ entry.count > 0
  BY <1>1, GroupsAreFinite DEF GoodEntry, IsEntry
<1> HIDE DEF entry
<1>5. CASE Listed(entry) = {}
  <2>1. ~(Cardinality(Group(found, s)) < entry.count)
    BY <1>3, <1>5 DEF Counters
  <2>2. Group(found, s) # {}
    BY <1>4, <2>1, FS_EmptySet
  <2>3. Cardinality(Group(found, s)) <= entry.count
    BY <1>2, <1>5, <2>2 DEF Allows
  <2> QED BY <1>4, <1>5, <2>1, <2>3 DEF entry
<1>6. CASE Listed(entry) # {}
  <2>1. \A k \in Listed(entry) : Cardinality(OfKey(found, s, k)) <= entry.entities[k]
    BY <1>1, <1>2, <1>6, ListedEntryFits
  <2>2. ASSUME NEW k \in Listed(entry)
        PROVE  Cardinality(OfKey(found, s, k)) = entry.entities[k]
    <3>1. ~(Cardinality(OfKey(found, s, k)) < entry.entities[k])
      <4>1. PICK u : u = [slot |-> s, entity |-> k, allowed |-> entry.entities[k],
                          found |-> Cardinality(OfKey(found, s, k))]
        OBVIOUS
      <4>2. u \in Counters(entry, found, s)
        BY <1>6, <4>1 DEF Counters
      <4>3. ~(u.found < u.allowed)
        BY <1>3, <4>2
      <4> QED BY <4>1, <4>3
    <3>2. Cardinality(OfKey(found, s, k)) \in Nat /\ entry.entities[k] \in Nat
      BY <1>1, GroupsAreFinite DEF GoodEntry, IsEntry
    <3>3. Cardinality(OfKey(found, s, k)) <= entry.entities[k]
      BY <2>1
    <3> QED BY <3>1, <3>2, <3>3
  <2>3. Cardinality(Group(found, s)) = entry.count
    BY <1>1, <1>2, <1>6, <2>2, ListedEntryFits
  <2> QED BY <2>2, <2>3 DEF entry
<1> QED BY <1>5, <1>6
=============================================================================
