------------------------ MODULE RuleAutomationProofs ------------------------
(***************************************************************************)
(* Proofs about RuleAutomation, for every set of rules and executions and  *)
(* every limit of the list.                                                *)
(***************************************************************************)
EXTENDS RuleAutomation, FiniteSetTheorems, TLAPS

-----------------------------------------------------------------------------
(***************************************************************************)
(* Lists                                                                   *)
(***************************************************************************)

\* Without() keeps the order, so its entries are numbered: the rank of a kept index is
\* a bijection onto 1..n. Counting cannot be done by induction here; that the rank grows
\* makes it injective, and two finite sets of one size leave no number out.
LEMMA Ranks ==
    ASSUME NEW n \in Nat, NEW K \in SUBSET (1 .. n)
    PROVE  /\ IsFiniteSet(K) /\ Cardinality(K) \in Nat
           /\ \A k \in 1 .. Cardinality(K) : \E i \in K : Cardinality({j \in K : j <= i}) = k
           /\ \A i \in K : Cardinality({j \in K : j <= i}) \in 1 .. Cardinality(K)
           /\ \A i, h \in K : Cardinality({j \in K : j <= i}) = Cardinality({j \in K : j <= h}) => i = h
<1>1. IsFiniteSet(K) /\ Cardinality(K) \in Nat
  <2>1. IsFiniteSet(1 .. n)
    BY FS_Interval
  <2> QED
    BY <2>1, FS_Subset, FS_CardinalityType
<1> DEFINE Up(i) == {j \in K : j <= i}
<1> DEFINE rank == [i \in K |-> Cardinality(Up(i))]
<1>2. \A i \in K : IsFiniteSet(Up(i)) /\ Cardinality(Up(i)) \in Nat /\ Cardinality(Up(i)) <= Cardinality(K)
  BY <1>1, FS_Subset, FS_CardinalityType
<1>3. \A i \in K : Cardinality(Up(i)) >= 1
  <2> SUFFICES ASSUME NEW i \in K PROVE Cardinality(Up(i)) >= 1
    OBVIOUS
  <2>1. {i} \in SUBSET Up(i)
    OBVIOUS
  <2>2. IsFiniteSet({i}) /\ Cardinality({i}) = 1
    BY FS_Singleton
  <2> QED
    BY <1>2, <2>1, <2>2, FS_Subset
<1>4. \A i \in K : Cardinality(Up(i)) \in 1 .. Cardinality(K)
  BY <1>1, <1>2, <1>3
<1>5. ASSUME NEW i \in K, NEW h \in K, i < h PROVE Cardinality(Up(i)) # Cardinality(Up(h))
  <2>1. Up(i) \in SUBSET Up(h)
    <3> SUFFICES ASSUME NEW j \in K, j <= i PROVE j <= h
      OBVIOUS
    <3>1. i \in Int /\ h \in Int /\ j \in Int
      OBVIOUS
    <3> QED
      BY <3>1, <1>5
  <2>2. h \in Up(h) /\ h \notin Up(i)
    BY <1>5
  <2> HIDE DEF Up
  <2> QED
    BY <1>2, <2>1, <2>2, FS_Subset
<1>6. \A i, h \in K : Cardinality(Up(i)) = Cardinality(Up(h)) => i = h
  <2> SUFFICES ASSUME NEW i \in K, NEW h \in K, i # h PROVE Cardinality(Up(i)) # Cardinality(Up(h))
    OBVIOUS
  <2>1. i < h \/ h < i
    OBVIOUS
  <2> HIDE DEF Up
  <2> QED
    BY <2>1, <1>5
<1>7. \A k \in 1 .. Cardinality(K) : \E i \in K : Cardinality(Up(i)) = k
  <2>1. rank \in Injection(K, 1 .. Cardinality(K))
    <3> HIDE DEF Up
    <3> QED
      BY <1>4, <1>6 DEF Injection, IsInjective
  <2>2. IsFiniteSet(1 .. Cardinality(K)) /\ Cardinality(1 .. Cardinality(K)) = Cardinality(K)
    BY <1>1, FS_Interval
  <2>3. rank \in Surjection(K, 1 .. Cardinality(K))
    <3> HIDE DEF rank
    <3> QED
      BY <2>1, <2>2, FS_Injection
  <2> HIDE DEF Up
  <2> QED
    BY <2>3 DEF Surjection
<1> QED
  BY <1>1, <1>4, <1>6, <1>7

\* filter(): what stays is a list of exactly the entries not in S, each once.
LEMMA Filtered ==
    ASSUME NEW T, NEW list \in Seq(T), IsInjective(list), NEW S
    PROVE  /\ Without(list, S) \in Seq(T)
           /\ ToSet(Without(list, S)) = ToSet(list) \ S
           /\ IsInjective(Without(list, S))
<1> DEFINE K == {i \in DOMAIN list : list[i] \notin S}
           At(k) == CHOOSE i \in K : Cardinality({j \in K : j <= i}) = k
           n == Cardinality(K)
<1>1. Len(list) \in Nat /\ DOMAIN list = 1 .. Len(list) /\ K \in SUBSET (1 .. Len(list))
  OBVIOUS
<1>2. /\ n \in Nat
      /\ \A k \in 1 .. n : \E i \in K : Cardinality({j \in K : j <= i}) = k
      /\ \A i \in K : Cardinality({j \in K : j <= i}) \in 1 .. n
      /\ \A i, h \in K : Cardinality({j \in K : j <= i}) = Cardinality({j \in K : j <= h}) => i = h
  <2> HIDE DEF K
  <2> QED
    BY <1>1, Ranks
<1>3. Without(list, S) = [k \in 1 .. n |-> list[At(k)]]
  BY DEF Without
<1>4. \A k \in 1 .. n : At(k) \in K /\ Cardinality({j \in K : j <= At(k)}) = k
  <2> HIDE DEF K, n
  <2> QED
    BY <1>2
<1>5. \A i \in K : \E k \in 1 .. n : At(k) = i
  <2> HIDE DEF K, n
  <2> SUFFICES ASSUME NEW i \in K PROVE \E k \in 1 .. n : At(k) = i
    OBVIOUS
  <2> DEFINE k == Cardinality({j \in K : j <= i})
  <2>1. k \in 1 .. n
    BY <1>2
  <2>2. At(k) \in K /\ Cardinality({j \in K : j <= At(k)}) = k
    BY <1>4, <2>1
  <2>3. At(k) = i
    BY <1>2, <2>2
  <2> QED
    BY <2>1, <2>3
<1>6. \A k, m \in 1 .. n : At(k) = At(m) => k = m
  <2> HIDE DEF K, n, At
  <2> QED
    BY <1>4
<1> HIDE DEF At, n
<1>7. \A k \in 1 .. n : list[At(k)] \in T
  <2>1. \A i \in K : list[i] \in T
    BY <1>1
  <2> HIDE DEF K
  <2> QED
    BY <2>1, <1>4
<1>8. Without(list, S) \in Seq(T)
  BY <1>2, <1>3, <1>7
<1>9. ToSet(Without(list, S)) = {list[At(k)] : k \in 1 .. n}
  BY <1>3 DEF ToSet
<1>10. {list[At(k)] : k \in 1 .. n} = {list[i] : i \in K}
  <2> HIDE DEF K
  <2> QED
    BY <1>4, <1>5
<1>11. {list[i] : i \in K} = ToSet(list) \ S
  BY <1>1 DEF ToSet
<1>12. IsInjective(Without(list, S))
  <2> SUFFICES ASSUME NEW k \in 1 .. n, NEW m \in 1 .. n, list[At(k)] = list[At(m)] PROVE k = m
    BY <1>3 DEF IsInjective
  <2>1. At(k) \in DOMAIN list /\ At(m) \in DOMAIN list
    BY <1>1, <1>4
  <2>2. At(k) = At(m)
    BY <2>1 DEF IsInjective
  <2> QED
    BY <2>2, <1>6
<1> QED
  BY <1>8, <1>9, <1>10, <1>11, <1>12

\* fire(): the new entry comes first, and the last one falls off a full list.
LEMMA Pushed ==
    ASSUME NEW T, NEW list \in Seq(T), IsInjective(list), NEW e \in T, e \notin ToSet(list),
           NEW kept, kept = list \/ (Len(list) > 0 /\ kept = Front(list))
    PROVE  /\ <<e>> \o kept \in Seq(T)
           /\ ToSet(<<e>> \o kept) = {e} \cup ToSet(kept)
           /\ IsInjective(<<e>> \o kept)
           /\ ToSet(kept) \subseteq ToSet(list)
<1>1. /\ kept \in Seq(T) /\ Len(kept) <= Len(list)
      /\ \A i \in 1 .. Len(kept) : kept[i] = list[i]
  BY DEF Front
<1> DEFINE new == <<e>> \o kept
<1>2. /\ new \in Seq(T) /\ Len(new) = Len(kept) + 1 /\ new[1] = e
      /\ \A i \in 2 .. Len(new) : new[i] = kept[i - 1]
  BY <1>1
<1>3. ToSet(kept) \subseteq ToSet(list)
  BY <1>1 DEF ToSet
<1>4. ToSet(new) = {e} \cup ToSet(kept)
  <2> HIDE DEF new
  <2>1. \A i \in DOMAIN new : new[i] \in {e} \cup ToSet(kept)
    <3> SUFFICES ASSUME NEW i \in 1 .. Len(new) PROVE new[i] \in {e} \cup ToSet(kept)
      BY <1>2
    <3>1. CASE i = 1
      BY <3>1, <1>2
    <3>2. CASE i # 1
      <4>1. i \in 2 .. Len(new) /\ i - 1 \in DOMAIN kept
        BY <3>2, <1>1, <1>2
      <4> QED
        BY <4>1, <1>2 DEF ToSet
    <3> QED
      BY <3>1, <3>2
  <2>2. \A i \in DOMAIN kept : kept[i] \in ToSet(new)
    <3> SUFFICES ASSUME NEW i \in 1 .. Len(kept) PROVE kept[i] \in ToSet(new)
      BY <1>1
    <3>1. i + 1 \in 2 .. Len(new) /\ i + 1 \in DOMAIN new /\ (i + 1) - 1 = i
      BY <1>1, <1>2
    <3> QED
      BY <3>1, <1>2 DEF ToSet
  <2>3. e \in ToSet(new)
    <3>1. 1 \in DOMAIN new
      BY <1>1, <1>2
    <3> QED
      BY <3>1, <1>2 DEF ToSet
  <2> QED
    BY <2>1, <2>2, <2>3 DEF ToSet
<1>5. IsInjective(new)
  <2> HIDE DEF new
  <2> SUFFICES ASSUME NEW i \in 1 .. Len(new), NEW k \in 1 .. Len(new), new[i] = new[k] PROVE i = k
    BY <1>2 DEF IsInjective
  <2>1. ASSUME NEW j \in 2 .. Len(new)
        PROVE  j - 1 \in DOMAIN list /\ new[j] = list[j - 1] /\ new[j] # e
    <3>1. j - 1 \in 1 .. Len(kept) /\ j - 1 \in DOMAIN list
      BY <1>1, <1>2
    <3>2. new[j] = list[j - 1]
      BY <1>1, <1>2, <3>1
    <3> QED
      BY <3>1, <3>2 DEF ToSet
  <2>2. CASE i = 1 \/ k = 1
    BY <2>1, <2>2, <1>2
  <2>3. CASE i # 1 /\ k # 1
    <3>1. i \in 2 .. Len(new) /\ k \in 2 .. Len(new)
      BY <2>3, <1>1, <1>2
    <3>2. i - 1 = k - 1
      BY <2>1, <3>1 DEF IsInjective
    <3> QED
      BY <3>1, <3>2
  <2> QED
    BY <2>2, <2>3
<1> QED
  BY <1>2, <1>3, <1>4, <1>5
-----------------------------------------------------------------------------
(***************************************************************************)
(* The inductive invariant                                                 *)
(***************************************************************************)
Attempts == {"none", "preparing", "saving", "applying"}

MemoryType ==
    /\ pending \in Seq(Execution) /\ IsInjective(pending)
    /\ status \in [Execution -> Status]
    /\ blocked \subseteq ToSet(pending)
    /\ stored = [pending |-> pending, status |-> status, blocked |-> blocked]
    /\ told \in BOOLEAN
TriesType == attempt \in [Execution -> Attempts] /\ prompt \subseteq Execution
UserType == user \in [Execution -> {"none", "waits", "works", "closing", "refused"}]
RightsType == ready \in BOOLEAN /\ wasReady \in BOOLEAN /\ stale \subseteq Execution

\* What waits for approval is a tweak that needs rights: one the service runs on its own
\* as soon as it has them.
Approving == \A e \in blocked : NeedsAdmin(e) /\ (ready => InFlight(e))

\* The rights of the broker and what the service remembers of them are the same.
Remembered == wasReady = ready

Settled == \A e \in stale : Decided(e) /\ ~InFlight(e)

IInv == TypeOK /\ AwaitingIsAnnounced /\ Approving /\ Remembered /\ Settled

\* What a step may not do to an execution that is decided.
KeepsDecided == \A e \in Execution : Decided(e) => Decided(e)' /\ (InFlight(e)' => InFlight(e))

LEMMA TypeParts == TypeOK <=> MemoryType /\ TriesType /\ UserType /\ RightsType
BY DEF TypeOK, MemoryType, TriesType, UserType, RightsType, Attempts

LEMMA TypeNext ==
    ASSUME MemoryType', TriesType', UserType', RightsType'
    PROVE  TypeOK'
BY DEF TypeOK, MemoryType, TriesType, UserType, RightsType, Attempts

LEMMA RightsKept ==
    ASSUME RightsType, UNCHANGED <<ready, wasReady, stale>>
    PROVE  RightsType'
BY DEF RightsType

LEMMA Entries == ASSUME NEW T, NEW list \in Seq(T) PROVE ToSet(list) \subseteq T
BY DEF ToSet

LEMMA Marking ==
    ASSUME NEW h \in [Execution -> Status], NEW S, NEW st \in Status \ {"none"}
    PROVE  /\ Marked(h, S, st) \in [Execution -> Status]
           /\ \A e \in Execution : h[e] # "none" \/ e \in S => Marked(h, S, st)[e] # "none"
BY DEF Marked, Status

\* A change of the list or the history, with its write.
LEMMA Becoming ==
    ASSUME NEW p \in Seq(Execution), IsInjective(p), NEW h \in [Execution -> Status],
           NEW b \in SUBSET ToSet(p), NEW notice \in BOOLEAN, told \in BOOLEAN,
           Becomes(p, h, b, notice)
    PROVE  /\ MemoryType'
           /\ pending' = p /\ status' = h /\ blocked' = b
           /\ b # {} => told' <=> (told \/ notice)
BY DEF Becomes, Saved, MemoryType

\* Entries leave the list.
LEMMA Leaving ==
    ASSUME NEW p \in Seq(Execution), IsInjective(p), NEW h \in [Execution -> Status],
           NEW b \in SUBSET ToSet(p), told \in BOOLEAN, NEW S, NEW st \in Status \ {"none"},
           LeaveFrom([pending |-> p, status |-> h, blocked |-> b], S, st)
    PROVE  /\ MemoryType'
           /\ ToSet(pending') = ToSet(p) \ S /\ blocked' = b \ S
           /\ \A e \in Execution : h[e] # "none" \/ e \in S => status'[e] # "none"
           /\ blocked' # {} => told' = told
<1>1. /\ Without(p, S) \in Seq(Execution) /\ IsInjective(Without(p, S))
      /\ ToSet(Without(p, S)) = ToSet(p) \ S
  BY Filtered
<1>2. /\ Marked(h, S, st) \in [Execution -> Status]
      /\ \A e \in Execution : h[e] # "none" \/ e \in S => Marked(h, S, st)[e] # "none"
  BY Marking
<1>3. Becomes(Without(p, S), Marked(h, S, st), b \ S, FALSE)
  BY DEF LeaveFrom
<1>4. b \ S \in SUBSET ToSet(Without(p, S))
  BY <1>1
<1>5. /\ MemoryType'
      /\ pending' = Without(p, S) /\ status' = Marked(h, S, st) /\ blocked' = b \ S
      /\ b \ S # {} => (told' <=> (told \/ FALSE))
  <2> DEFINE w == Without(p, S)
             k == Marked(h, S, st)
             c == b \ S
  <2>1. /\ w \in Seq(Execution) /\ IsInjective(w) /\ k \in [Execution -> Status]
        /\ c \in SUBSET ToSet(w) /\ FALSE \in BOOLEAN /\ Becomes(w, k, c, FALSE)
    BY <1>1, <1>2, <1>3, <1>4
  <2> HIDE DEF w, k, c
  <2>2. /\ MemoryType' /\ pending' = w /\ status' = k /\ blocked' = c
        /\ c # {} => (told' <=> (told \/ FALSE))
    BY <2>1, Becoming
  <2> QED
    BY <2>2 DEF w, k, c
<1>6. told' \in BOOLEAN
  BY <1>5 DEF MemoryType
<1> QED
  BY <1>1, <1>2, <1>5, <1>6

LEMMA LeavingNow ==
    ASSUME MemoryType, NEW S, NEW st \in Status \ {"none"}, Leave(S, st)
    PROVE  /\ MemoryType'
           /\ ToSet(pending') = ToSet(pending) \ S /\ blocked' = blocked \ S
           /\ \A e \in Execution : status[e] # "none" \/ e \in S => status'[e] # "none"
           /\ blocked' # {} => told' = told
<1>1. LeaveFrom([pending |-> pending, status |-> status, blocked |-> blocked], S, st)
  BY DEF Leave
<1>2. /\ pending \in Seq(Execution) /\ IsInjective(pending) /\ status \in [Execution -> Status]
      /\ blocked \in SUBSET ToSet(pending) /\ told \in BOOLEAN
  BY DEF MemoryType
<1> QED
  BY <1>1, <1>2, Leaving

\* resumePendingAutomaticActions(): nothing is tried that was not listed, and what still
\* waits is tried or was in flight.
LEMMA Resuming ==
    ASSUME MemoryType, NEW now \in [Execution -> Attempts], NEW old, NEW rdy \in BOOLEAN,
           NEW approved \in BOOLEAN, NEW lapsed,
           Resume([pending |-> pending, status |-> status, blocked |-> blocked],
                  now, old, rdy, approved, lapsed)
    PROVE  /\ MemoryType'
           /\ ToSet(pending') \subseteq ToSet(pending) \ old /\ blocked' \subseteq blocked \ old
           /\ \A e \in Execution : status[e] # "none" \/ e \in old => status'[e] # "none"
           /\ blocked' # {} => told' = told
           /\ attempt' \in [Execution -> Attempts]
           /\ \A e \in Execution : attempt'[e] # "none" =>
                  now[e] # "none" \/ e \in ToSet(pending) \ old
           /\ \A e \in blocked' : now[e] # "none" \/ Handles(e, rdy) => attempt'[e] # "none"
<1> DEFINE tried == {e \in ToSet(pending) \ old : now[e] = "none"}
           over == {e \in tried \cap lapsed : e \in blocked \/ approved}
<1>1. /\ LeaveFrom([pending |-> pending, status |-> status, blocked |-> blocked], old \cup over, "expired")
      /\ attempt' = [e \in Execution |-> IF e \in tried \ over /\ Handles(e, rdy)
                                         THEN "preparing" ELSE now[e]]
  BY DEF Resume
<1>2. /\ pending \in Seq(Execution) /\ IsInjective(pending) /\ status \in [Execution -> Status]
      /\ blocked \in SUBSET ToSet(pending) /\ told \in BOOLEAN
      /\ "expired" \in Status \ {"none"}
  BY DEF MemoryType, Status
<1> HIDE DEF tried, over
<1>3. /\ MemoryType'
      /\ ToSet(pending') = ToSet(pending) \ (old \cup over) /\ blocked' = blocked \ (old \cup over)
      /\ \A e \in Execution : status[e] # "none" \/ e \in old \cup over => status'[e] # "none"
      /\ blocked' # {} => told' = told
  BY <1>1, <1>2, Leaving
<1>4. attempt' \in [Execution -> Attempts]
  BY <1>1 DEF Attempts
<1>5. \A e \in Execution : attempt'[e] # "none" => now[e] # "none" \/ e \in ToSet(pending) \ old
  BY <1>1 DEF tried
<1>6. ToSet(pending) \subseteq Execution
  BY <1>2, Entries
<1>7. \A e \in blocked' : now[e] # "none" \/ Handles(e, rdy) => attempt'[e] # "none"
  <2> SUFFICES ASSUME NEW e \in blocked', now[e] # "none" \/ Handles(e, rdy)
               PROVE  attempt'[e] # "none"
    OBVIOUS
  <2>1. e \in Execution /\ e \in ToSet(pending) \ old /\ e \notin over
    BY <1>2, <1>3, <1>6
  <2>2. CASE now[e] # "none"
    BY <1>1, <2>1, <2>2
  <2>3. CASE now[e] = "none"
    BY <1>1, <2>1, <2>3 DEF tried
  <2> QED
    BY <2>2, <2>3
<1> QED
  BY <1>3, <1>4, <1>5, <1>7
-----------------------------------------------------------------------------
(***************************************************************************)
(* Every action                                                            *)
(***************************************************************************)
Holds == TypeOK /\ AwaitingIsAnnounced /\ Approving /\ Remembered

LEMMA RightsHandle ==
    ASSUME NEW e \in Execution, NeedsAdmin(e)
    PROVE  Handles(e, TRUE)
BY RuleAssumption DEF NeedsAdmin, Handles

\* begins: executeAutomaticTweakRuleAction() takes an entry over.
LEMMA Beginning ==
    ASSUME TriesType, NEW e \in Execution, NEW p \in BOOLEAN, Begins(e, p)
    PROVE  /\ TriesType'
           /\ \A x \in Execution : InFlight(x) => attempt'[x] # "none"
           /\ \A x \in Execution \ {e} : attempt'[x] = attempt[x]
<1>1. CASE Handles(e, ready)
  <2>1. attempt' = [attempt EXCEPT ![e] = "preparing"] /\ (prompt' = prompt \/ prompt' = prompt \cup {e})
    BY <1>1 DEF Begins
  <2> QED
    BY <2>1 DEF TriesType, Attempts, InFlight
<1>2. CASE ~Handles(e, ready)
  <2>1. attempt' = attempt /\ prompt' = prompt
    BY <1>2 DEF Begins, tries
  <2> QED
    BY <2>1 DEF TriesType, InFlight
<1> QED
  BY <1>1, <1>2

LEMMA FireStep ==
    ASSUME Holds, NEW e \in Execution, Fire(e)
    PROVE  Holds' /\ KeepsDecided
<1>t. MemoryType /\ TriesType /\ UserType /\ RightsType
  BY TypeParts DEF Holds
<1>m. /\ pending \in Seq(Execution) /\ IsInjective(pending) /\ status \in [Execution -> Status]
      /\ blocked \in SUBSET ToSet(pending) /\ told \in BOOLEAN
  BY <1>t DEF MemoryType
<1>1. status[e] = "none" /\ UNCHANGED <<user, ready, wasReady, stale>>
  BY DEF Fire
<1>2. e \notin ToSet(pending)
  BY DEF Fire
<1>3. CASE Kind[RuleOf[e]] = "notify"
  <2>1. Becomes(pending, Marked(status, {e}, "completed"), blocked, FALSE) /\ UNCHANGED tries
    BY <1>3 DEF Fire
  <2>2. /\ Marked(status, {e}, "completed") \in [Execution -> Status]
        /\ \A x \in Execution : status[x] # "none" => Marked(status, {e}, "completed")[x] # "none"
    BY <1>t, Marking DEF MemoryType, Status
  <2>3. /\ MemoryType' /\ pending' = pending /\ status' = Marked(status, {e}, "completed")
        /\ blocked' = blocked /\ (blocked # {} => told' <=> (told \/ FALSE))
    BY <1>m, <2>1, <2>2, Becoming
  <2>4. TypeOK'
    <3>1. TriesType' /\ UserType' /\ RightsType'
      BY <1>t, <1>1, <2>1 DEF tries, TriesType, UserType, RightsType
    <3> QED
      BY <2>3, <3>1, TypeNext
  <2>5. AwaitingIsAnnounced' /\ Approving' /\ Remembered'
    BY <1>1, <2>1, <2>3 DEF Holds, AwaitingIsAnnounced, Approving, Remembered, NeedsAdmin, InFlight, tries
  <2>6. KeepsDecided
    BY <2>1, <2>2, <2>3 DEF KeepsDecided, Decided, Listed, InFlight, tries
  <2> QED
    BY <2>4, <2>5, <2>6 DEF Holds
<1>4. CASE Kind[RuleOf[e]] # "notify"
  <2> DEFINE kept == IF Len(pending) < Limit THEN pending ELSE Front(pending)
  <2>1. /\ Becomes(<<e>> \o kept, Marked(status, {e}, "pending"), blocked \cap ToSet(kept), FALSE)
        /\ Begins(e, FALSE)
    BY <1>4 DEF Fire
  <2>2. kept = pending \/ (Len(pending) > 0 /\ kept = Front(pending))
    <3>1. Limit \in Nat \ {0} /\ Len(pending) \in Nat
      BY <1>t, RuleAssumption DEF MemoryType
    <3> QED
      BY <3>1
  <2> HIDE DEF kept
  <2>3. /\ <<e>> \o kept \in Seq(Execution) /\ IsInjective(<<e>> \o kept)
        /\ ToSet(<<e>> \o kept) = {e} \cup ToSet(kept)
        /\ ToSet(kept) \subseteq ToSet(pending)
    BY <1>t, <1>2, <2>2, Pushed DEF MemoryType
  <2>4. /\ Marked(status, {e}, "pending") \in [Execution -> Status]
        /\ \A x \in Execution : status[x] # "none" => Marked(status, {e}, "pending")[x] # "none"
    BY <1>t, Marking DEF MemoryType, Status
  <2>5. /\ MemoryType' /\ pending' = <<e>> \o kept /\ status' = Marked(status, {e}, "pending")
        /\ blocked' = blocked \cap ToSet(kept) /\ (blocked' # {} => told' <=> (told \/ FALSE))
    <3>1. blocked \cap ToSet(kept) \in SUBSET ToSet(<<e>> \o kept) /\ told \in BOOLEAN
      BY <1>t, <2>3 DEF MemoryType
    <3> QED
      BY <2>1, <2>3, <2>4, <3>1, Becoming
  <2>6. /\ TriesType'
        /\ \A x \in Execution : InFlight(x) => attempt'[x] # "none"
        /\ \A x \in Execution \ {e} : attempt'[x] = attempt[x]
    BY <1>t, <2>1, Beginning
  <2>7. TypeOK'
    <3>1. UserType' /\ RightsType'
      BY <1>t, <1>1 DEF UserType, RightsType
    <3> QED
      BY <2>5, <2>6, <3>1, TypeNext
  <2>8. blocked' \subseteq blocked /\ blocked \subseteq Execution
    BY <1>t, <2>5, Entries DEF MemoryType
  <2>9. AwaitingIsAnnounced' /\ Approving' /\ Remembered'
    BY <1>1, <2>5, <2>6, <2>8 DEF Holds, AwaitingIsAnnounced, Approving, Remembered, NeedsAdmin, InFlight
  <2>10. KeepsDecided
    BY <1>1, <2>3, <2>4, <2>5, <2>6 DEF KeepsDecided, Decided, Listed, InFlight
  <2> QED
    BY <2>7, <2>9, <2>10 DEF Holds
<1> QED
  BY <1>3, <1>4

LEMMA Ending ==
    ASSUME TriesType, UserType, NEW e \in Execution, Ends(e), NEW ok \in BOOLEAN, Resolves(e, ok)
    PROVE  /\ TriesType' /\ UserType'
           /\ attempt'[e] = "none" /\ \A x \in Execution \ {e} : attempt'[x] = attempt[x]
<1>1. TriesType' /\ attempt'[e] = "none" /\ \A x \in Execution \ {e} : attempt'[x] = attempt[x]
  BY DEF Ends, TriesType, Attempts
<1>2. UserType'
  <2>1. user' = user \/ user' = [user EXCEPT ![e] = "none"] \/ user' = [user EXCEPT ![e] = "refused"]
    BY DEF Resolves
  <2> QED
    BY <2>1 DEF UserType
<1> QED
  BY <1>1, <1>2

\* Without rights an attempt ends by waiting for them.
LEMMA AwaitStep ==
    ASSUME Holds, NEW e \in Execution, NeedsAdmin(e), ~ready, InFlight(e), MarkAwaitingAdmin(e)
    PROVE  Holds' /\ KeepsDecided
<1>t. MemoryType /\ TriesType /\ UserType /\ RightsType
  BY TypeParts DEF Holds
<1> DEFINE b == IF Listed(e) THEN blocked \cup {e} ELSE blocked
           notice == Listed(e) /\ e \notin blocked /\ Alone(e)
           h == Marked(status, {e}, "pending")
<1>1. /\ Becomes(pending, h, b, notice) /\ Ends(e) /\ Resolves(e, FALSE)
      /\ UNCHANGED <<ready, wasReady, stale>>
  BY DEF MarkAwaitingAdmin
<1>2. b \in SUBSET ToSet(pending) /\ notice \in BOOLEAN
  BY <1>t DEF MemoryType, Listed
<1>3. h \in [Execution -> Status] /\ \A x \in Execution : status[x] # "none" => h[x] # "none"
  BY <1>t, Marking DEF MemoryType, Status
<1>4. b # {} => told \/ notice
  BY DEF Holds, AwaitingIsAnnounced, Alone
<1>5. b \subseteq blocked \cup {e}
  OBVIOUS
<1> HIDE DEF b, notice, h
<1>6. /\ MemoryType' /\ pending' = pending /\ status' = h /\ blocked' = b
      /\ b # {} => told' <=> (told \/ notice)
  <2>1. pending \in Seq(Execution) /\ IsInjective(pending) /\ told \in BOOLEAN
    BY <1>t DEF MemoryType
  <2> QED
    BY <2>1, <1>1, <1>2, <1>3, Becoming
<1>7. /\ TriesType' /\ UserType'
      /\ attempt'[e] = "none" /\ \A x \in Execution \ {e} : attempt'[x] = attempt[x]
  BY <1>t, <1>1, Ending
<1>8. TypeOK'
  BY <1>t, <1>1, <1>6, <1>7, RightsKept, TypeNext
<1>9. AwaitingIsAnnounced'
  BY <1>4, <1>6 DEF AwaitingIsAnnounced
<1>10. Approving' /\ Remembered'
  BY <1>1, <1>5, <1>6 DEF Holds, Approving, Remembered, NeedsAdmin
<1>11. KeepsDecided
  BY <1>3, <1>6, <1>7 DEF KeepsDecided, Decided, Listed, InFlight
<1> QED
  BY <1>8, <1>9, <1>10, <1>11 DEF Holds

\* Entries leave the list, and at most one attempt, that of such an entry, ends.
LEMMA LeaveStep ==
    ASSUME Holds, NEW S, NEW st \in Status \ {"none"}, Leave(S, st),
           TriesType', UserType', UNCHANGED <<ready, wasReady, stale>>,
           \A x \in Execution \ S : attempt'[x] = attempt[x],
           \A x \in S : x \in Execution => attempt'[x] = attempt[x] \/ attempt'[x] = "none"
    PROVE  Holds' /\ KeepsDecided
<1>t. MemoryType /\ TriesType /\ UserType /\ RightsType
  BY TypeParts DEF Holds
<1>1. /\ MemoryType'
      /\ ToSet(pending') = ToSet(pending) \ S /\ blocked' = blocked \ S
      /\ \A e \in Execution : status[e] # "none" \/ e \in S => status'[e] # "none"
      /\ blocked' # {} => told' = told
  BY <1>t, LeavingNow
<1>2. blocked \subseteq Execution
  BY <1>t, Entries DEF MemoryType
<1>3. TypeOK'
  BY <1>t, <1>1, RightsKept, TypeNext
<1>4. AwaitingIsAnnounced' /\ Approving' /\ Remembered'
  BY <1>1, <1>2 DEF Holds, AwaitingIsAnnounced, Approving, Remembered, NeedsAdmin, InFlight
<1>5. KeepsDecided
  BY <1>1 DEF KeepsDecided, Decided, Listed, InFlight
<1> QED
  BY <1>3, <1>4, <1>5 DEF Holds
\* Nothing happens to the list, the history or the rights; attempts and calls go on, and
\* a new attempt is that of a listed entry.
LEMMA QuietStep ==
    ASSUME Holds, UNCHANGED <<memory, ready, wasReady, stale>>, TriesType', UserType',
           \A x \in Execution : InFlight(x) => attempt'[x] # "none",
           \A x \in Execution : Listed(x) \/ InFlight(x) \/ attempt'[x] = "none"
    PROVE  Holds' /\ KeepsDecided
<1>t. MemoryType /\ TriesType /\ UserType /\ RightsType
  BY TypeParts DEF Holds
<1>1. UNCHANGED <<pending, status, blocked, stored, told>> /\ blocked \subseteq Execution
  BY <1>t, Entries DEF memory, MemoryType
<1>2. TypeOK'
  <2>1. MemoryType'
    BY <1>t, <1>1 DEF MemoryType
  <2> QED
    BY <1>t, <2>1, RightsKept, TypeNext
<1>3. AwaitingIsAnnounced' /\ Approving' /\ Remembered'
  BY <1>1 DEF Holds, AwaitingIsAnnounced, Approving, Remembered, NeedsAdmin, InFlight
<1>4. KeepsDecided
  BY <1>1 DEF KeepsDecided, Decided, Listed, InFlight
<1> QED
  BY <1>2, <1>3, <1>4 DEF Holds

LEMMA AttemptStep ==
    ASSUME Holds, NEW e \in Execution, Attempt(e)
    PROVE  Holds' /\ KeepsDecided /\ stale' = stale
<1>t. MemoryType /\ TriesType /\ UserType /\ RightsType
  BY TypeParts DEF Holds
<1>1. CASE RightsMissing(e)
  BY <1>1, AwaitStep DEF RightsMissing, MarkAwaitingAdmin, InFlight
<1>2. CASE BrokerRefuses(e)
  BY <1>2, AwaitStep DEF BrokerRefuses, MarkAwaitingAdmin, InFlight
<1>3. CASE Prepared(e) \/ Apply(e)
  <2>1. /\ InFlight(e) /\ UNCHANGED <<memory, prompt, user, ready, wasReady, stale>>
        /\ \/ attempt' = [attempt EXCEPT ![e] = "saving"]
           \/ attempt' = [attempt EXCEPT ![e] = "applying"]
    BY <1>3 DEF Prepared, Apply, InFlight
  <2>2. /\ attempt' \in [Execution -> Attempts] /\ attempt'[e] # "none"
        /\ \A x \in Execution \ {e} : attempt'[x] = attempt[x]
    BY <1>t, <2>1 DEF TriesType, Attempts
  <2>3. TriesType' /\ UserType'
    BY <1>t, <2>1, <2>2 DEF TriesType, UserType
  <2> QED
    BY <2>1, <2>2, <2>3, QuietStep DEF InFlight
<1>4. CASE \E ok \in BOOLEAN : AttemptEnds(e, ok)
  <2>1. PICK ok \in BOOLEAN : AttemptEnds(e, ok)
    BY <1>4
  <2> DEFINE st == IF ok THEN "completed" ELSE "failed"
  <2>2. /\ Leave({e}, st) /\ Ends(e) /\ Resolves(e, ok)
        /\ UNCHANGED <<ready, wasReady, stale>>
    BY <2>1 DEF AttemptEnds
  <2>3. st \in Status \ {"none"}
    BY DEF Status
  <2>4. TriesType' /\ UserType' /\ attempt'[e] = "none" /\ \A x \in Execution \ {e} : attempt'[x] = attempt[x]
    BY <1>t, <2>2, Ending
  <2> HIDE DEF st
  <2> QED
    BY <2>2, <2>3, <2>4, LeaveStep
<1> QED
  BY <1>1, <1>2, <1>3, <1>4 DEF Attempt

LEMMA RendererMoves ==
    ASSUME Holds, NEW e \in Execution, RendererStep(e)
    PROVE  Holds' /\ KeepsDecided /\ stale' = stale
<1>t. MemoryType /\ TriesType /\ UserType /\ RightsType
  BY TypeParts DEF Holds
<1>s. {"expired", "completed", "failed", "dismissed"} \subseteq Status \ {"none"}
  BY DEF Status
<1>a. ASSUME UNCHANGED tries
      PROVE  TriesType' /\ \A x \in Execution : attempt'[x] = attempt[x]
  BY <1>t, <1>a DEF tries, TriesType
<1>b. ASSUME NEW u \in {"none", "waits", "works", "closing", "refused"}, user' = [user EXCEPT ![e] = u]
      PROVE  UserType'
  BY <1>t, <1>b DEF UserType
<1>1. CASE Execute(e)
  <2> DEFINE u == IF Handles(e, ready) THEN "waits"
                  ELSE IF Kind[RuleOf[e]] = "close" THEN "closing" ELSE "works"
  <2>1. /\ Listed(e) /\ Begins(e, TRUE) /\ user' = [user EXCEPT ![e] = u]
        /\ UNCHANGED <<memory, ready, wasReady, stale>>
    BY <1>1 DEF Execute
  <2>2. u \in {"none", "waits", "works", "closing", "refused"}
    OBVIOUS
  <2> HIDE DEF u
  <2>3. UserType'
    BY <1>b, <2>1, <2>2
  <2>4. /\ TriesType' /\ \A x \in Execution : InFlight(x) => attempt'[x] # "none"
        /\ \A x \in Execution \ {e} : attempt'[x] = attempt[x]
    BY <1>t, <2>1, Beginning
  <2> QED
    BY <2>1, <2>3, <2>4, QuietStep DEF InFlight
<1>2. CASE ExecuteRefused(e)
  <2>1. /\ UNCHANGED memory \/ Leave({e}, "expired")
        /\ user' = [user EXCEPT ![e] = "refused"] /\ UNCHANGED <<tries, ready, wasReady, stale>>
    BY <1>2 DEF ExecuteRefused
  <2>2. UserType' /\ TriesType' /\ \A x \in Execution : attempt'[x] = attempt[x]
    BY <1>a, <1>b, <2>1
  <2>3. CASE UNCHANGED memory
    BY <2>1, <2>2, <2>3, QuietStep DEF InFlight
  <2>4. CASE Leave({e}, "expired")
    BY <1>s, <2>1, <2>2, <2>4, LeaveStep
  <2> QED
    BY <2>1, <2>3, <2>4
<1>3. CASE Dismiss(e)
  <2>1. Leave({e}, "dismissed") /\ UNCHANGED <<tries, user, ready, wasReady, stale>>
    BY <1>3 DEF Dismiss
  <2>2. UserType' /\ TriesType' /\ \A x \in Execution : attempt'[x] = attempt[x]
    BY <1>t, <1>a, <2>1 DEF UserType
  <2> QED
    BY <1>s, <2>1, <2>2, LeaveStep
<1>4. ASSUME NEW ok \in BOOLEAN, CloseEnds(e, ok)
      PROVE  Holds' /\ KeepsDecided /\ stale' = stale
  <2>1. /\ UNCHANGED memory \/ Leave({e}, "completed")
        /\ user' = [user EXCEPT ![e] = "none"] \/ user' = [user EXCEPT ![e] = "refused"]
        /\ UNCHANGED <<tries, ready, wasReady, stale>>
    BY <1>4 DEF CloseEnds
  <2>2. UserType' /\ TriesType' /\ \A x \in Execution : attempt'[x] = attempt[x]
    BY <1>a, <1>b, <2>1
  <2>3. CASE UNCHANGED memory
    BY <2>1, <2>2, <2>3, QuietStep DEF InFlight
  <2>4. CASE Leave({e}, "completed")
    BY <1>s, <2>1, <2>2, <2>4, LeaveStep
  <2> QED
    BY <2>1, <2>3, <2>4
<1>5. ASSUME NEW ok \in BOOLEAN, RendererCompletes(e, ok)
      PROVE  Holds' /\ KeepsDecided /\ stale' = stale
  <2>1. /\ Leave({e}, "completed") \/ Leave({e}, "failed")
        /\ user' = [user EXCEPT ![e] = "none"] /\ UNCHANGED <<tries, ready, wasReady, stale>>
    BY <1>5 DEF RendererCompletes
  <2>2. UserType' /\ TriesType' /\ \A x \in Execution : attempt'[x] = attempt[x]
    BY <1>a, <1>b, <2>1
  <2> QED
    BY <1>s, <2>1, <2>2, LeaveStep
<1> QED
  BY <1>1, <1>2, <1>3, <1>4, <1>5 DEF RendererStep
\* Rights are approved: what waits is tried again, or was being tried.
LEMMA ApprovedStep ==
    ASSUME Holds, NEW lapsed, ResumeApproved(lapsed), ready' = TRUE, wasReady' = TRUE,
           UNCHANGED <<prompt, user, stale>>
    PROVE  Holds' /\ KeepsDecided
<1>t. MemoryType /\ TriesType /\ UserType /\ RightsType
  BY TypeParts DEF Holds
<1>1. /\ Resume([pending |-> pending, status |-> status, blocked |-> blocked],
                attempt, {}, TRUE, TRUE, lapsed)
      /\ attempt \in [Execution -> Attempts]
  BY <1>t DEF ResumeApproved, TriesType
<1>2. /\ MemoryType'
      /\ ToSet(pending') \subseteq ToSet(pending) \ {} /\ blocked' \subseteq blocked \ {}
      /\ \A e \in Execution : status[e] # "none" \/ e \in {} => status'[e] # "none"
      /\ blocked' # {} => told' = told
      /\ attempt' \in [Execution -> Attempts]
      /\ \A e \in Execution : attempt'[e] # "none" => attempt[e] # "none" \/ e \in ToSet(pending) \ {}
      /\ \A e \in blocked' : attempt[e] # "none" \/ Handles(e, TRUE) => attempt'[e] # "none"
  BY <1>t, <1>1, Resuming
<1>3. TypeOK'
  <2>1. TriesType' /\ UserType' /\ RightsType'
    BY <1>t, <1>2 DEF TriesType, UserType, RightsType
  <2> QED
    BY <1>2, <2>1, TypeNext
<1>4. AwaitingIsAnnounced' /\ Remembered'
  BY <1>2 DEF Holds, AwaitingIsAnnounced, Remembered
<1>5. Approving'
  <2>1. blocked \subseteq Execution
    BY <1>t, Entries DEF MemoryType
  <2>2. \A e \in blocked' : NeedsAdmin(e) /\ Handles(e, TRUE)
    BY <1>2, <2>1, RightsHandle DEF Holds, Approving
  <2>3. \A e \in blocked' : attempt'[e] # "none"
    BY <1>2, <2>2
  <2> QED
    BY <2>2, <2>3 DEF Approving, NeedsAdmin, InFlight
<1>6. KeepsDecided
  BY <1>2 DEF KeepsDecided, Decided, Listed, InFlight
<1> QED
  BY <1>3, <1>4, <1>5, <1>6 DEF Holds

LEMMA BrokerReadyStep ==
    ASSUME Holds, NEW lapsed, BrokerReady(lapsed)
    PROVE  Holds' /\ KeepsDecided /\ stale' = stale
<1>1. wasReady = FALSE
  BY TypeParts DEF Holds, Remembered, BrokerReady, RightsType
<1> QED
  BY <1>1, ApprovedStep DEF BrokerReady

LEMMA ApproveStep ==
    ASSUME Holds, NEW lapsed, ApproveAdminPending(lapsed)
    PROVE  Holds' /\ KeepsDecided /\ stale' = stale
<1>1. ready' = TRUE /\ wasReady' = TRUE
  BY TypeParts DEF Holds, Remembered, ApproveAdminPending, RightsType
<1> QED
  BY <1>1, ApprovedStep DEF ApproveAdminPending

\* The rights are lost: what waits goes on waiting, and was announced.
LEMMA LostStep ==
    ASSUME Holds, BrokerLost
    PROVE  Holds' /\ KeepsDecided /\ stale' = stale
<1>t. MemoryType /\ TriesType /\ UserType /\ RightsType
  BY TypeParts DEF Holds
<1>1. /\ ready' = FALSE /\ wasReady' = FALSE /\ stale' = stale
      /\ UNCHANGED <<pending, status, blocked, stored, told, attempt, prompt, user>>
  BY DEF BrokerLost, memory, tries
<1>2. TypeOK'
  <2>1. MemoryType' /\ TriesType' /\ UserType' /\ RightsType'
    BY <1>t, <1>1 DEF MemoryType, TriesType, UserType, RightsType
  <2> QED
    BY <2>1, TypeNext
<1>3. AwaitingIsAnnounced' /\ Approving' /\ Remembered'
  BY <1>1 DEF Holds, AwaitingIsAnnounced, Approving, Remembered, NeedsAdmin
<1>4. KeepsDecided
  BY <1>1 DEF KeepsDecided, Decided, Listed, InFlight
<1> QED
  BY <1>1, <1>2, <1>3, <1>4 DEF Holds

\* The history is cleared: no entry of it is forgotten by the service.
LEMMA ClearStep ==
    ASSUME Holds, ClearHistory
    PROVE  Holds' /\ KeepsDecided /\ stale' = stale
<1>t. MemoryType /\ TriesType /\ UserType /\ RightsType
  BY TypeParts DEF Holds
<1> DEFINE h == [e \in Execution |-> IF status[e] = "none" THEN "none" ELSE "cleared"]
<1>1. /\ Becomes(pending, h, blocked, FALSE)
      /\ UNCHANGED <<attempt, prompt, user, ready, wasReady, stale>>
  BY DEF ClearHistory, tries
<1>2. h \in [Execution -> Status] /\ \A e \in Execution : status[e] # "none" => h[e] # "none"
  BY DEF Status
<1>3. /\ pending \in Seq(Execution) /\ IsInjective(pending) /\ blocked \in SUBSET ToSet(pending)
      /\ told \in BOOLEAN /\ FALSE \in BOOLEAN /\ blocked \subseteq Execution
  BY <1>t, Entries DEF MemoryType
<1> HIDE DEF h
<1>4. /\ MemoryType' /\ pending' = pending /\ status' = h /\ blocked' = blocked
      /\ blocked # {} => (told' <=> (told \/ FALSE))
  BY <1>1, <1>2, <1>3, Becoming
<1>5. TypeOK'
  <2>1. TriesType' /\ UserType' /\ RightsType'
    BY <1>t, <1>1 DEF TriesType, UserType, RightsType
  <2> QED
    BY <1>4, <2>1, TypeNext
<1>6. AwaitingIsAnnounced' /\ Approving' /\ Remembered'
  BY <1>1, <1>3, <1>4 DEF Holds, AwaitingIsAnnounced, Approving, Remembered, NeedsAdmin, InFlight
<1>7. KeepsDecided
  BY <1>1, <1>2, <1>4 DEF KeepsDecided, Decided, Listed, InFlight
<1> QED
  BY <1>1, <1>5, <1>6, <1>7 DEF Holds

\* A new session: what waited in the one before leaves the list for good.
LEMMA RestartStep ==
    ASSUME Holds, Settled, NEW lapsed, Restart(lapsed)
    PROVE  Holds' /\ KeepsDecided /\ Settled'
<1>t. MemoryType /\ TriesType /\ UserType /\ RightsType
  BY TypeParts DEF Holds
<1> DEFINE none == [e \in Execution |-> "none"]
<1>1. /\ stored = [pending |-> pending, status |-> status, blocked |-> blocked]
      /\ stored.blocked = blocked /\ blocked \subseteq Execution /\ stale \subseteq Execution
  BY <1>t, Entries DEF MemoryType, RightsType
<1>2. /\ Resume([pending |-> pending, status |-> status, blocked |-> blocked],
                none, blocked, FALSE, FALSE, lapsed)
      /\ prompt' = {} /\ user' = [e \in Execution |-> "none"]
      /\ ready' = FALSE /\ wasReady' = FALSE /\ stale' = stale \cup blocked
  BY <1>1 DEF Restart, EarlierSession
<1>3. none \in [Execution -> Attempts] /\ \A e \in Execution : none[e] = "none"
  BY DEF Attempts
<1> HIDE DEF none
<1>4. /\ MemoryType'
      /\ ToSet(pending') \subseteq ToSet(pending) \ blocked /\ blocked' \subseteq blocked \ blocked
      /\ \A e \in Execution : status[e] # "none" \/ e \in blocked => status'[e] # "none"
      /\ attempt' \in [Execution -> Attempts]
      /\ \A e \in Execution : attempt'[e] # "none" => none[e] # "none" \/ e \in ToSet(pending) \ blocked
  BY <1>t, <1>2, <1>3, Resuming
<1>5. TypeOK'
  <2>1. TriesType' /\ UserType' /\ RightsType'
    BY <1>1, <1>2, <1>4 DEF TriesType, UserType, RightsType
  <2> QED
    BY <1>4, <2>1, TypeNext
<1>6. AwaitingIsAnnounced' /\ Approving' /\ Remembered'
  BY <1>2, <1>4 DEF AwaitingIsAnnounced, Approving, Remembered
<1>7. KeepsDecided
  BY <1>3, <1>4 DEF KeepsDecided, Decided, Listed, InFlight
<1>8. Settled'
  <2> SUFFICES ASSUME NEW e \in stale' PROVE Decided(e)' /\ ~InFlight(e)'
    BY DEF Settled
  <2>1. CASE e \in stale
    BY <1>1, <1>7, <2>1 DEF Settled, KeepsDecided
  <2>2. CASE e \in blocked
    BY <1>1, <1>3, <1>4, <2>2 DEF Decided, Listed, InFlight
  <2> QED
    BY <1>2, <2>1, <2>2
<1> QED
  BY <1>5, <1>6, <1>7, <1>8 DEF Holds

LEMMA Starting == ASSUME Init PROVE IInv
<1>1. MemoryType /\ TriesType /\ UserType /\ RightsType
  <2>1. <<>> \in Seq(Execution) /\ IsInjective(<<>>)
    BY DEF IsInjective
  <2> QED
    BY <2>1 DEF Init, MemoryType, TriesType, UserType, RightsType, Attempts, Status
<1>2. AwaitingIsAnnounced /\ Approving /\ Remembered /\ Settled
  BY DEF Init, AwaitingIsAnnounced, Approving, Remembered, Settled
<1> QED
  BY <1>1, <1>2, TypeParts DEF IInv

\* Every step keeps the invariant, and what is decided.
LEMMA Stepping ==
    ASSUME IInv, [Next]_vars
    PROVE  IInv' /\ KeepsDecided
<1>h. Holds /\ Settled
  BY DEF IInv, Holds
<1>s. ASSUME Holds', KeepsDecided, stale' = stale PROVE IInv'
  <2>1. stale \subseteq Execution
    BY <1>h DEF Holds, TypeOK
  <2>2. Settled'
    BY <1>h, <1>s, <2>1 DEF Settled, KeepsDecided
  <2> QED
    BY <1>s, <2>2 DEF Holds, IInv
<1>1. ASSUME NEW e \in Execution, Fire(e) PROVE IInv' /\ KeepsDecided
  BY <1>h, <1>s, <1>1, FireStep DEF Fire
<1>2. ASSUME NEW e \in Execution, Attempt(e) PROVE IInv' /\ KeepsDecided
  BY <1>h, <1>s, <1>2, AttemptStep
<1>3. ASSUME NEW e \in Execution, RendererStep(e) PROVE IInv' /\ KeepsDecided
  BY <1>h, <1>s, <1>3, RendererMoves
<1>4. ASSUME NEW lapsed, BrokerReady(lapsed) PROVE IInv' /\ KeepsDecided
  BY <1>h, <1>s, <1>4, BrokerReadyStep
<1>5. ASSUME NEW lapsed, ApproveAdminPending(lapsed) PROVE IInv' /\ KeepsDecided
  BY <1>h, <1>s, <1>5, ApproveStep
<1>6. ASSUME NEW lapsed, Restart(lapsed) PROVE IInv' /\ KeepsDecided
  BY <1>h, <1>6, RestartStep DEF IInv, Holds
<1>7. CASE BrokerLost
  BY <1>h, <1>s, <1>7, LostStep
<1>8. CASE ClearHistory
  BY <1>h, <1>s, <1>8, ClearStep
<1>9. CASE UNCHANGED vars
  <2>1. UNCHANGED <<pending, status, blocked, stored, told, attempt, prompt, user, ready, wasReady, stale>>
    BY <1>9 DEF vars, memory, tries
  <2>2. MemoryType' /\ TriesType' /\ UserType' /\ RightsType'
    BY <1>h, <2>1, TypeParts DEF Holds, MemoryType, TriesType, UserType, RightsType
  <2>3. TypeOK'
    BY <2>2, TypeNext
  <2>4. AwaitingIsAnnounced' /\ Approving' /\ Remembered'
    BY <1>h, <2>1 DEF Holds, AwaitingIsAnnounced, Approving, Remembered, NeedsAdmin, InFlight
  <2>5. KeepsDecided
    BY <2>1 DEF KeepsDecided, Decided, Listed, InFlight
  <2> QED
    BY <1>s, <2>1, <2>3, <2>4, <2>5 DEF Holds
<1> QED
  BY <1>1, <1>2, <1>3, <1>4, <1>5, <1>6, <1>7, <1>8, <1>9 DEF Next
-----------------------------------------------------------------------------
(***************************************************************************)
(* The theorems                                                            *)
(***************************************************************************)

LEMMA Always == Spec => []IInv
<1>1. Init => IInv
  BY Starting
<1>2. IInv /\ [Next]_vars => IInv'
  BY Stepping
<1> QED
  BY <1>1, <1>2, PTL DEF Spec

\* The list holds an execution once, what waits for approval is listed, and the state file
\* is what the service has in memory, in every state.
THEOREM TypeCorrect == Spec => []TypeOK
<1>1. IInv => TypeOK
  BY DEF IInv
<1> QED
  BY <1>1, Always, PTL

\* However markings, restarts and losses of the rights interleave, the user has been told of
\* the group of executions that wait for approval.
THEOREM WaitingIsAnnounced == Spec => []AwaitingIsAnnounced
<1>1. IInv => AwaitingIsAnnounced
  BY DEF IInv
<1> QED
  BY <1>1, Always, PTL

\* While rights are approved, every execution that waits for them is being run: none was
\* overlooked by the resumption, and none began to wait after it.
THEOREM ApprovalResumes == Spec => []ReadyMeansResumed
<1>1. IInv => ReadyMeansResumed
  BY DEF IInv, Approving, ReadyMeansResumed
<1> QED
  BY <1>1, Always, PTL

\* What waited for approval when a session ended is neither listed nor run in a later one.
THEOREM EarlierSessionIsOver == Spec => []EarlierSessionNeverRuns
<1>1. IInv => EarlierSessionNeverRuns
  BY DEF IInv, Settled, Decided, EarlierSessionNeverRuns
<1> QED
  BY <1>1, Always, PTL

\* No step lists an execution that has left the list again, or begins to run it again.
THEOREM DecisionIsFinal == Spec => DecidedIsFinal
<1>1. IInv /\ [Next]_vars => [\A e \in Execution : Decided(e) =>
                                  Decided(e)' /\ (InFlight(e)' => InFlight(e))]_vars
  BY Stepping DEF KeepsDecided
<1> QED
  BY <1>1, Always, PTL DEF DecidedIsFinal, Spec
=============================================================================
