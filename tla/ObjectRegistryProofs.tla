------------------------- MODULE ObjectRegistryProofs -------------------------
(***************************************************************************)
(* Theorems of ObjectRegistry for any number of threads, objects and       *)
(* handles, any modulus and any number of buckets.                         *)
(*                                                                         *)
(* Ids: two objects never get the same automatic key, whether or not       *)
(* threads meet at the tables.  The lock protects the counter and nothing  *)
(* else, so the argument (IInv) follows an id from the counter through the *)
(* register of the thread that drew it to the key of the object.           *)
(*                                                                         *)
(* Tables: until threads meet there, the chains are those of the linked    *)
(* objects under the keys they have now, all different, and a link about   *)
(* to be published still fits the bucket it was prepared for (TInv).       *)
(*                                                                         *)
(* Handles: what a handle names is allocated, has the name while it is     *)
(* active, and nobody else has or will get its id (HInv).                  *)
(***************************************************************************)
EXTENDS ObjectRegistry, CollectionLemmas

-------------------------------------------------------------------------------
(* The inductive invariant. *)

\* The types of what the drawing of an id reads and writes.
Typed ==
    /\ key \in [Object -> Key]
    /\ lock \in BOOLEAN
    /\ pc \in [Thread -> {"idle", "acquire", "read", "write", "release", "key",
                          "link", "mark", "free"}]
    /\ subject \in [Thread -> Object \cup {Null}]
    /\ edx \in [Thread -> Word]
    /\ seed \in Word
    /\ draws \in 0 .. MaxDraws

\* The id of the n-th draw.
Id(n) == IF seed + n < Modulus THEN seed + n ELSE seed + n - Modulus
Issued == {Id(n) : n \in 1 .. draws}

\* A thread has the lock: it is the only one, and the counter is its own.
Critical(t) == pc[t] \in {"read", "write", "release"}
LockIsExclusive ==
    /\ \A t \in Thread : Critical(t) => lock
    /\ \A t, u \in Thread : Critical(t) /\ Critical(u) => t = u
CounterIsLastId ==
    /\ counter = Id(draws)
    /\ \A t \in Thread : pc[t] \in {"read", "write"} => draws < MaxDraws
    /\ \A t \in Thread : pc[t] = "write" => edx[t] = Id(draws + 1)

\* Nobody else registers or destroys the object a thread is busy with.
Freeing(o) == \E t \in Thread : pc[t] = "free" /\ subject[t] = o
SubjectsDiffer ==
    /\ \A t \in Thread : pc[t] # "idle" => subject[t] \in Object
    /\ \A t, u \in Thread : pc[t] # "idle" /\ pc[u] # "idle" /\ subject[t] = subject[u] => t = u

\* An issued id is in one register, or in the key of one object.
InHand(t) == pc[t] \in {"release", "key"}
Holds(o)  == Automatic(key[o]) /\ ~Freeing(o)
IdsAreSpread ==
    /\ \A t \in Thread : InHand(t) => edx[t] \in Issued
    /\ \A o \in Object : Holds(o) => key[o][2] \in Issued
    /\ \A t, u \in Thread : InHand(t) /\ InHand(u) /\ edx[t] = edx[u] => t = u
    /\ \A t \in Thread, o \in Object : InHand(t) /\ Holds(o) => edx[t] # key[o][2]
    /\ \A o, p \in Object : Holds(o) /\ Holds(p) /\ key[o][2] = key[p][2] => o = p

IInv == /\ Typed /\ LockIsExclusive /\ CounterIsLastId /\ SubjectsDiffer /\ IdsAreSpread
        /\ live \subseteq Object

-------------------------------------------------------------------------------
(* Ids and keys. *)

\* Draws that do not come round draw different ids, though they pass through zero.
LEMMA IdsDiffer ==
    ASSUME seed \in Word, NEW m \in 0 .. MaxDraws, NEW n \in 0 .. MaxDraws
    PROVE  Id(m) \in Word /\ (Id(m) = Id(n) => m = n)
  BY RegistryAssumption DEF Id, Word

\* The id after the last one is the next one.
LEMMA NextId ==
    ASSUME seed \in Word, NEW n \in 0 .. MaxDraws - 1
    PROVE  Id(n + 1) = IF Id(n) + 1 = Modulus THEN 0 ELSE Id(n) + 1
  BY RegistryAssumption DEF Id, Word

\* It was not issued before.
LEMMA NextIdIsNew ==
    ASSUME Typed, draws < MaxDraws
    PROVE  Id(draws + 1) \notin Issued
  <1> SUFFICES ASSUME NEW n \in 1 .. draws, Id(draws + 1) = Id(n)
               PROVE  FALSE
    BY DEF Issued
  <1> QED
    BY IdsDiffer, RegistryAssumption DEF Typed

\* The key of every object that is registered or about to be has an id of its own.
LEMMA KeyedHold ==
    ASSUME IInv, NEW o \in Keyed, Automatic(key[o])
    PROVE  o \in Object /\ Holds(o)
  <1>1. CASE o \in Registered
    BY <1>1 DEF Registered, Busy, IInv, Holds, Freeing
  <1>2. CASE o \notin Registered
    <2>1. PICK t \in Thread : pc[t] \in {"link", "mark"} /\ subject[t] = o
      BY <1>2 DEF Keyed
    <2> QED
      BY <2>1 DEF IInv, SubjectsDiffer, Holds, Freeing
  <1> QED
    BY <1>1, <1>2

LEMMA KeysFollow == IInv => AutoKeysDistinct
  <1> SUFFICES ASSUME IInv, NEW o \in Keyed, NEW p \in Keyed,
                      Automatic(key[o]), key[o] = key[p]
               PROVE  o = p
    BY DEF AutoKeysDistinct
  <1>1. o \in Object /\ Holds(o) /\ p \in Object /\ Holds(p)
    BY KeyedHold
  <1> QED
    BY <1>1 DEF IInv, IdsAreSpread

-------------------------------------------------------------------------------
(* Steps. *)

LEMMA InitInvariant == Init => IInv
  <1> SUFFICES ASSUME Init PROVE IInv
    OBVIOUS
  <1> USE RegistryAssumption DEF Init
  <1>1. Typed
    <2>1. 0 \in Word /\ 0 \in 0 .. MaxDraws /\ Seeds \subseteq Word /\ DefaultKey \in Key
      BY DEF Word
    <2>2. key \in [Object -> Key] /\ edx \in [Thread -> Word]
      BY <2>1
    <2> QED
      BY <2>1, <2>2 DEF Typed
  <1>2. LockIsExclusive /\ SubjectsDiffer
    BY DEF LockIsExclusive, SubjectsDiffer, Critical
  <1>3. CounterIsLastId
    BY DEF CounterIsLastId, Id, Word
  <1>4. \A o \in Object : ~Holds(o)
    BY DEF Holds
  <1>5. IdsAreSpread
    BY <1>4 DEF IdsAreSpread, InHand
  <1> QED
    BY <1>1, <1>2, <1>3, <1>5 DEF IInv

\* What a step must leave alone: ids that were issued stay where they are when it
\* draws none and writes no automatic key.
LEMMA IdsStay ==
    ASSUME IdsAreSpread, UNCHANGED <<seed, draws>>,
           \A t \in Thread : InHand(t)' => InHand(t) /\ edx'[t] = edx[t],
           \A o \in Object : Holds(o)' => Holds(o) /\ key'[o] = key[o]
    PROVE  IdsAreSpread'
  <1>1. Issued' = Issued
    BY DEF Issued, Id
  <1> QED
    BY <1>1 DEF IdsAreSpread

\* A step that moves no counter and lets no thread enter.
LEMMA CounterStays ==
    ASSUME CounterIsLastId, LockIsExclusive, UNCHANGED <<seed, draws, counter, lock>>,
           \A t \in Thread : Critical(t)' => pc'[t] = pc[t] /\ edx'[t] = edx[t]
    PROVE  CounterIsLastId' /\ LockIsExclusive'
  <1>1. \A n : Id(n)' = Id(n)
    BY DEF Id
  <1>2. CounterIsLastId'
    BY <1>1 DEF CounterIsLastId, Critical
  <1>3. LockIsExclusive'
    BY DEF LockIsExclusive, Critical
  <1> QED
    BY <1>2, <1>3

LEMMA ConstructStep ==
    ASSUME IInv, NEW o \in Object, Construct(o)
    PROVE  IInv'
  <1> USE DEF IInv, Construct, threads, drawing, handles
  <1>1. Typed'
    BY RegistryAssumption DEF Typed
  <1>2. CounterIsLastId' /\ LockIsExclusive'
    BY CounterStays
  <1>3. SubjectsDiffer'
    BY DEF SubjectsDiffer
  <1>4. \A p \in Object : Holds(p)' => Holds(p) /\ key'[p] = key[p]
    BY RegistryAssumption DEF Holds, Freeing, Typed
  <1>5. IdsAreSpread'
    BY <1>4, IdsStay DEF InHand
  <1> QED
    BY <1>1, <1>2, <1>3, <1>5

\* A thread that starts on an object that nobody is busy with: its subject is its own.
LEMMA TakesSubject ==
    ASSUME IInv, NEW t \in Thread, NEW o \in Object, ~Busy(o), pc[t] = "idle",
           NEW step \in {"acquire", "link", "free"},
           subject' = [subject EXCEPT ![t] = o], pc' = [pc EXCEPT ![t] = step]
    PROVE  SubjectsDiffer'
  BY DEF IInv, Typed, SubjectsDiffer, Busy

LEMMA RegisterStep ==
    ASSUME IInv, NEW t \in Thread, NEW o \in Object,
           NEW k \in ExplicitKeys \cup {DefaultKey}, Register(t, o, k)
    PROVE  IInv'
  <1> USE DEF IInv
  <1>1. /\ pc[t] = "idle" /\ ~Busy(o)
        /\ subject' = [subject EXCEPT ![t] = o]
        /\ UNCHANGED <<live, edx, counter, lock, seed, draws>>
    BY DEF Register, drawing
  <1>2. k \in Key /\ ~Automatic(k)
    BY RegistryAssumption
  <1>3. PICK step \in {"acquire", "link"} :
           /\ pc' = [pc EXCEPT ![t] = step]
           /\ key' \in {key, [key EXCEPT ![o] = k]}
    BY DEF Register
  <1>4. Typed'
    BY <1>1, <1>2, <1>3 DEF Typed
  <1>5. CounterIsLastId' /\ LockIsExclusive'
    BY <1>1, <1>3, CounterStays DEF Critical, Typed
  <1>6. SubjectsDiffer'
    BY <1>1, <1>3, TakesSubject
  <1>7. ASSUME NEW p \in Object, Holds(p)'
        PROVE  Holds(p) /\ key'[p] = key[p]
    <2>1. key'[p] = key[p]
      BY <1>2, <1>3, <1>7 DEF Holds, Typed
    <2>2. Freeing(p) => Freeing(p)'
      BY <1>1, <1>3 DEF Freeing, Typed
    <2> QED
      BY <1>7, <2>1, <2>2 DEF Holds
  <1>8. IdsAreSpread'
    BY <1>1, <1>3, <1>7, IdsStay DEF InHand, Typed
  <1> QED
    BY <1>1, <1>4, <1>5, <1>6, <1>8

LEMMA DeregisterStep ==
    ASSUME IInv, NEW t \in Thread, NEW o \in Object, Deregister(t, o)
    PROVE  IInv'
  <1> USE DEF IInv
  <1>1. /\ pc[t] = "idle" /\ ~Busy(o)
        /\ subject' = [subject EXCEPT ![t] = o]
        /\ pc' = [pc EXCEPT ![t] = "free"]
        /\ key' \in {key, [key EXCEPT ![o] = <<key[o][2], Tomb>>]}
        /\ UNCHANGED <<live, edx, counter, lock, seed, draws>>
    BY DEF Deregister, drawing
  <1>2. Typed'
    BY <1>1, RegistryAssumption DEF Typed, Key
  <1>3. CounterIsLastId' /\ LockIsExclusive'
    BY <1>1, CounterStays DEF Critical, Typed
  <1>4. SubjectsDiffer'
    BY <1>1, TakesSubject
  <1>5. ASSUME NEW p \in Object, Holds(p)'
        PROVE  Holds(p) /\ key'[p] = key[p]
    <2>1. Freeing(o)'
      BY <1>1 DEF Freeing, Typed
    <2>2. p # o
      BY <1>5, <2>1 DEF Holds
    <2>3. Freeing(p) => Freeing(p)'
      BY <1>1 DEF Freeing, Typed
    <2> QED
      BY <1>1, <1>5, <2>2, <2>3 DEF Holds, Typed
  <1>6. IdsAreSpread'
    BY <1>1, <1>5, IdsStay DEF InHand, Typed
  <1> QED
    BY <1>1, <1>2, <1>3, <1>4, <1>6

LEMMA FreeStep ==
    ASSUME IInv, NEW t \in Thread, Free(t)
    PROVE  IInv'
  <1> USE DEF IInv
  <1>1. /\ pc[t] = "free" /\ subject[t] \in Object
        /\ key' = [key EXCEPT ![subject[t]] = DefaultKey]
        /\ subject' = [subject EXCEPT ![t] = Null]
        /\ pc' = [pc EXCEPT ![t] = "idle"]
        /\ live' = live \ {subject[t]}
        /\ UNCHANGED <<edx, counter, lock, seed, draws>>
    BY DEF Free, drawing, SubjectsDiffer
  <1>2. Typed'
    BY <1>1, RegistryAssumption DEF Typed
  <1>3. CounterIsLastId' /\ LockIsExclusive'
    BY <1>1, CounterStays DEF Critical, Typed
  <1>4. SubjectsDiffer'
    BY <1>1 DEF SubjectsDiffer, Typed
  <1>5. ASSUME NEW p \in Object, Holds(p)'
        PROVE  Holds(p) /\ key'[p] = key[p]
    <2>1. p # subject[t]
      BY <1>1, <1>5, RegistryAssumption DEF Holds, Typed
    <2>2. Freeing(p) => Freeing(p)'
      BY <1>1, <2>1 DEF Freeing, Typed
    <2> QED
      BY <1>1, <1>5, <2>1, <2>2 DEF Holds, Typed
  <1>6. IdsAreSpread'
    BY <1>1, <1>5, IdsStay DEF InHand, Typed
  <1> QED
    BY <1>1, <1>2, <1>3, <1>4, <1>6

\* A registration moves on: who is busy with which object stays.
LEMMA SubjectsStay ==
    ASSUME IInv, NEW t \in Thread, pc[t] \notin {"idle", "free"},
           NEW step \in {"read", "write", "release", "key", "link"},
           pc' = [pc EXCEPT ![t] = step], UNCHANGED subject
    PROVE  SubjectsDiffer' /\ \A o \in Object : Freeing(o)' <=> Freeing(o)
  BY DEF IInv, Typed, SubjectsDiffer, Freeing

LEMMA AcquireStep ==
    ASSUME IInv, NEW t \in Thread, Acquire(t)
    PROVE  IInv'
  <1> USE DEF IInv
  <1>1. /\ pc[t] = "acquire" /\ draws < MaxDraws /\ ~lock /\ lock'
        /\ pc' = [pc EXCEPT ![t] = "read"]
        /\ UNCHANGED <<live, key, subject, edx, counter, seed, draws>>
    BY DEF Acquire, objects
  <1>2. Typed'
    BY <1>1 DEF Typed, Acquire
  <1>3. LockIsExclusive'
    BY <1>1 DEF LockIsExclusive, Critical, Typed
  <1>4. \A n : Id(n)' = Id(n)
    BY <1>1 DEF Id
  <1>5. CounterIsLastId'
    BY <1>1, <1>4 DEF CounterIsLastId, Typed
  <1>6. SubjectsDiffer' /\ \A o \in Object : Freeing(o)' <=> Freeing(o)
    BY <1>1, SubjectsStay
  <1>7. IdsAreSpread'
    BY <1>1, <1>6, IdsStay DEF InHand, Holds, Typed
  <1> QED
    BY <1>1, <1>2, <1>3, <1>5, <1>6, <1>7

LEMMA ReadCounterStep ==
    ASSUME IInv, NEW t \in Thread, ReadCounter(t)
    PROVE  IInv'
  <1> USE DEF IInv
  <1> DEFINE id == IF counter + 1 = Modulus THEN 0 ELSE counter + 1
  <1>1. /\ pc[t] = "read"
        /\ edx' = [edx EXCEPT ![t] = id]
        /\ pc' = [pc EXCEPT ![t] = "write"]
        /\ UNCHANGED <<live, key, subject, lock, counter, seed, draws>>
    BY DEF ReadCounter, objects, drawing
  <1>2. /\ draws < MaxDraws /\ draws \in 0 .. MaxDraws - 1 /\ draws + 1 \in 0 .. MaxDraws
        /\ seed \in Word
    BY <1>1, RegistryAssumption DEF CounterIsLastId, Typed
  <1>3. id = Id(draws + 1) /\ id \in Word
    BY <1>2, NextId, IdsDiffer DEF CounterIsLastId
  <1> HIDE DEF id
  <1>4. Typed'
    BY <1>1, <1>3 DEF Typed
  <1>5. LockIsExclusive'
    BY <1>1 DEF LockIsExclusive, Critical, Typed
  <1>6. \A n : Id(n)' = Id(n)
    BY <1>1 DEF Id
  <1>7. CounterIsLastId'
    BY <1>1, <1>2, <1>3, <1>5, <1>6 DEF CounterIsLastId, Typed, LockIsExclusive, Critical
  <1>8. SubjectsDiffer' /\ \A o \in Object : Freeing(o)' <=> Freeing(o)
    BY <1>1, SubjectsStay
  <1>9. IdsAreSpread'
    BY <1>1, <1>8, IdsStay DEF InHand, Holds, Typed
  <1> QED
    BY <1>1, <1>4, <1>5, <1>7, <1>8, <1>9

\* The id leaves the counter's critical section for a register: nobody has it yet.
LEMMA WriteCounterStep ==
    ASSUME IInv, NEW t \in Thread, WriteCounter(t)
    PROVE  IInv'
  <1> USE DEF IInv
  <1>1. /\ pc[t] = "write"
        /\ counter' = edx[t] /\ draws' = draws + 1
        /\ pc' = [pc EXCEPT ![t] = "release"]
        /\ UNCHANGED <<live, key, subject, edx, lock, seed>>
    BY DEF WriteCounter, objects
  <1>2. draws < MaxDraws /\ edx[t] = Id(draws + 1)
    BY <1>1 DEF CounterIsLastId
  <1>3. Typed'
    BY <1>1, <1>2, RegistryAssumption DEF Typed
  <1>4. LockIsExclusive'
    BY <1>1 DEF LockIsExclusive, Critical, Typed
  <1>5. \A n : Id(n)' = Id(n)
    BY <1>1 DEF Id
  <1>6. CounterIsLastId'
    BY <1>1, <1>2, <1>4, <1>5 DEF CounterIsLastId, Typed, LockIsExclusive, Critical
  <1>7. SubjectsDiffer' /\ \A o \in Object : Freeing(o)' <=> Freeing(o)
    BY <1>1, SubjectsStay
  <1>8. edx[t] \notin Issued
    BY <1>2, NextIdIsNew
  <1>9. Issued \subseteq Issued' /\ edx[t] \in Issued'
    BY <1>1, <1>2, <1>5, RegistryAssumption DEF Issued, Typed
  <1>10. \A o \in Object : (Holds(o)' <=> Holds(o)) /\ key'[o] = key[o]
    BY <1>1, <1>7 DEF Holds
  <1>11. \A u \in Thread : (InHand(u)' <=> u = t \/ InHand(u)) /\ edx'[u] = edx[u]
    BY <1>1 DEF InHand, Typed
  <1>12. IdsAreSpread'
    BY <1>8, <1>9, <1>10, <1>11 DEF IdsAreSpread
  <1> QED
    BY <1>1, <1>3, <1>4, <1>6, <1>7, <1>12

LEMMA ReleaseStep ==
    ASSUME IInv, NEW t \in Thread, Release(t)
    PROVE  IInv'
  <1> USE DEF IInv
  <1>1. /\ pc[t] = "release" /\ ~lock'
        /\ pc' = [pc EXCEPT ![t] = "key"]
        /\ UNCHANGED <<live, key, subject, edx, counter, seed, draws>>
    BY DEF Release, objects
  <1>2. Typed'
    BY <1>1 DEF Typed, Release
  <1>3. \A u \in Thread : ~Critical(u)'
    BY <1>1 DEF LockIsExclusive, Critical, Typed
  <1>4. \A n : Id(n)' = Id(n)
    BY <1>1 DEF Id
  <1>5. LockIsExclusive' /\ CounterIsLastId'
    BY <1>1, <1>3, <1>4 DEF LockIsExclusive, CounterIsLastId, Critical
  <1>6. SubjectsDiffer' /\ \A o \in Object : Freeing(o)' <=> Freeing(o)
    BY <1>1, SubjectsStay
  <1>7. IdsAreSpread'
    BY <1>1, <1>6, IdsStay DEF InHand, Holds, Typed
  <1> QED
    BY <1>1, <1>2, <1>5, <1>6, <1>7

\* The id goes from the register to the key.
LEMMA WriteKeyStep ==
    ASSUME IInv, NEW t \in Thread, WriteKey(t)
    PROVE  IInv'
  <1> USE DEF IInv
  <1> DEFINE s == subject[t]
  <1>1. /\ pc[t] = "key" /\ s \in Object
        /\ key' = [key EXCEPT ![s] = <<AutoKind, edx[t]>>]
        /\ edx' = [edx EXCEPT ![t] = 0]
        /\ pc' = [pc EXCEPT ![t] = "link"]
        /\ UNCHANGED <<live, subject, lock, counter, seed, draws>>
    BY DEF WriteKey, drawing, SubjectsDiffer
  <1>2. edx[t] \in Word /\ key'[s] = <<AutoKind, edx[t]>> /\ key'[s][2] = edx[t]
    BY <1>1 DEF Typed
  <1>3. Typed'
    BY <1>1, <1>2, RegistryAssumption DEF Typed, Key, Word
  <1>4. CounterIsLastId' /\ LockIsExclusive'
    BY <1>1, CounterStays DEF Critical, Typed
  <1>5. SubjectsDiffer' /\ \A o \in Object : Freeing(o)' <=> Freeing(o)
    BY <1>1, SubjectsStay
  <1>6. InHand(t) /\ \A u \in Thread : InHand(u)' => u # t /\ InHand(u) /\ edx'[u] = edx[u]
    BY <1>1 DEF InHand, Typed
  <1>7. \A o \in Object \ {s} : (Holds(o)' => Holds(o)) /\ key'[o] = key[o]
    BY <1>1, <1>5 DEF Holds, Typed
  <1>8. Issued' = Issued
    BY <1>1 DEF Issued, Id
  <1>9. IdsAreSpread'
    BY <1>1, <1>2, <1>6, <1>7, <1>8 DEF IdsAreSpread
  <1> QED
    BY <1>1, <1>3, <1>4, <1>5, <1>9

LEMMA LinkStep ==
    ASSUME IInv, NEW t \in Thread, Link(t)
    PROVE  IInv'
  <1> USE DEF IInv
  <1>1. /\ pc[t] = "link"
        /\ pc' = [pc EXCEPT ![t] = "mark"]
        /\ UNCHANGED <<live, key, subject, edx, lock, counter, seed, draws>>
    BY DEF Link, drawing
  <1>2. Typed'
    BY <1>1 DEF Typed
  <1>3. CounterIsLastId' /\ LockIsExclusive'
    BY <1>1, CounterStays DEF Critical, Typed
  <1>4. SubjectsDiffer'
    BY <1>1 DEF SubjectsDiffer, Typed
  <1>5. IdsAreSpread'
    BY <1>1, IdsStay DEF InHand, Holds, Freeing, Typed
  <1> QED
    BY <1>1, <1>2, <1>3, <1>4, <1>5

LEMMA MarkStep ==
    ASSUME IInv, NEW t \in Thread, Mark(t)
    PROVE  IInv'
  <1> USE DEF IInv
  <1>1. /\ pc[t] = "mark"
        /\ pc' = [pc EXCEPT ![t] = "idle"]
        /\ subject' = [subject EXCEPT ![t] = Null]
        /\ UNCHANGED <<live, key, edx, lock, counter, seed, draws>>
    BY DEF Mark, drawing
  <1>2. Typed'
    BY <1>1 DEF Typed
  <1>3. CounterIsLastId' /\ LockIsExclusive'
    BY <1>1, CounterStays DEF Critical, Typed
  <1>4. SubjectsDiffer'
    BY <1>1 DEF SubjectsDiffer, Typed
  <1>5. IdsAreSpread'
    BY <1>1, IdsStay DEF InHand, Holds, Freeing, Typed
  <1> QED
    BY <1>1, <1>2, <1>3, <1>4, <1>5

\* Nothing that the drawing of ids depends on changes.
LEMMA ElsewhereStep ==
    ASSUME IInv, UNCHANGED <<live, key, pc, subject, edx, lock, counter, seed, draws>>
    PROVE  IInv'
  <1> USE DEF IInv
  <1>1. Typed' /\ SubjectsDiffer'
    BY DEF Typed, SubjectsDiffer
  <1>2. CounterIsLastId' /\ LockIsExclusive'
    BY CounterStays DEF Critical
  <1>3. IdsAreSpread'
    BY IdsStay DEF InHand, Holds, Freeing
  <1> QED
    BY <1>1, <1>2, <1>3

-------------------------------------------------------------------------------
(* The results. *)

THEOREM Invariance == Spec => []IInv
  <1>1. IInv /\ [Next]_vars => IInv'
    <2> SUFFICES ASSUME IInv, [Next]_vars PROVE IInv'
      OBVIOUS
    <2>1. CASE UNCHANGED vars
      BY <2>1, ElsewhereStep DEF vars, objects, threads, drawing
    <2>2. ASSUME NEW o \in Object, Construct(o) PROVE IInv'
      BY <2>2, ConstructStep
    <2>3. ASSUME NEW h \in Handle, Resolve(h) PROVE IInv'
      BY <2>3, ElsewhereStep DEF Resolve, objects, threads, drawing
    <2>4. ASSUME NEW h \in Handle, NEW o \in Object, Refer(h, o) PROVE IInv'
      BY <2>4, ElsewhereStep DEF Refer, objects, threads, drawing
    <2>5. ASSUME NEW t \in Thread, Registration(t) PROVE IInv'
      BY <2>5, AcquireStep, ReadCounterStep, WriteCounterStep, ReleaseStep,
         WriteKeyStep, LinkStep, MarkStep DEF Registration
    <2>6. ASSUME NEW t \in Thread, Free(t) PROVE IInv'
      BY <2>6, FreeStep
    <2>7. ASSUME NEW t \in Thread, NEW o \in Object, Deregister(t, o) PROVE IInv'
      BY <2>7, DeregisterStep
    <2>8. ASSUME NEW t \in Thread, NEW o \in Object, Reinsert(t, o) PROVE IInv'
      BY <2>8, ElsewhereStep DEF Reinsert, threads, drawing
    <2>9. ASSUME NEW t \in Thread, NEW o \in Object,
                 NEW k \in ExplicitKeys \cup {DefaultKey}, Register(t, o, k)
          PROVE  IInv'
      BY <2>9, RegisterStep
    <2> QED
      BY <2>1, <2>2, <2>3, <2>4, <2>5, <2>6, <2>7, <2>8, <2>9 DEF Next
  <1> QED
    BY <1>1, InitInvariant, PTL DEF Spec

\* No two objects get the same automatic key, however many threads draw ids at
\* once and though the counter runs through zero.
THEOREM DrawnKeysDiffer == Spec => []AutoKeysDistinct
  BY Invariance, KeysFollow, PTL

\* One thread at a time is between taking the lock and releasing it.
THEOREM DrawingIsExclusive == Spec => []LockIsExclusive
  BY Invariance, PTL DEF IInv

-------------------------------------------------------------------------------
(* The tables. *)

\* The objects that are in the tables as long as the threads do not meet there: those
\* registered, and those linked and not marked yet.
Marked(o) == \E t \in Thread : pc[t] = "mark" /\ subject[t] = o
Linked == {o \in live : (active[o] /\ ~Busy(o)) \/ Marked(o)}

Slot == 0 .. Buckets - 1
Place == Table \X Slot
Lengths(c, t) == [b \in Slot |-> Len(c[<<t, b>>])]

\* The chains c are those of the objects L under the keys k.
Rows(c, L, k) ==
    \A p \in Place : /\ \A i, j \in 1 .. Len(c[p]) : c[p][i] = c[p][j] => i = j
                     /\ ToSet(c[p]) = {o \in L : Bucket(k[o]) = p}
Counted(c, n) == \A t \in Table : n[t] = SumFunction(Lengths(c, t))
KeysDiffer(L, k) == \A o, q \in L : k[o] = k[q] => o = q

TableTypes ==
    /\ chain \in [Place -> Seq(Object)] /\ count \in [Table -> Int]
    /\ active \in [Object -> BOOLEAN] /\ next \in [Thread -> Seq(Object)]
    /\ raced \in BOOLEAN

\* What a thread registers or destroys is allocated, and not active before the end of
\* its registration.
SubjectsLive ==
    \A t \in Thread : pc[t] # "idle" => /\ subject[t] \in live
                                        /\ pc[t] # "free" => ~active[subject[t]]

\* A thread that is about to publish a link knows what follows it, and its key is free.
LinkIsReady(t) ==
    pc[t] = "link" => /\ next[t] = chain[Bucket(key[subject[t]])]
                      /\ \A o \in Linked : key[o] # key[subject[t]]

Chained ==
    /\ Rows(chain, Linked, key) /\ Counted(chain, count) /\ KeysDiffer(Linked, key)
    /\ \A t \in Thread : LinkIsReady(t)
    /\ \A t, u \in Thread : pc[t] = "link" /\ pc[u] = "link" => t = u

TInv == TableTypes /\ SubjectsLive /\ (~raced => Chained)

\* Every key has a bucket.
LEMMA BucketExists ==
    ASSUME NEW k \in Key
    PROVE  /\ TableOf(k) \in Table /\ Hash(k) \in Slot
           /\ Bucket(k) = <<TableOf(k), Hash(k)>> /\ Bucket(k) \in Place
  <1> DEFINE n == k[1] * Shift + k[2]
  <1>1. Modulus \in Nat \ {0} /\ Buckets \in Nat \ {0} /\ Shift \in Nat
    BY RegistryAssumption
  <1>2. k[1] \in Nat /\ k[2] \in Nat
    BY <1>1 DEF Key, Word
  <1>3. n \in Nat
    <2>1. k[1] * Shift \in Nat
      BY <1>1, <1>2
    <2> QED
      BY <1>2, <2>1
  <1> HIDE DEF n
  <1>4. n % Modulus \in Nat
    BY <1>1, <1>3
  <1>5. (n % Modulus) % Buckets \in 0 .. Buckets - 1
    BY <1>1, <1>4
  <1>6. Hash(k) \in Slot
    BY <1>5 DEF Hash, Slot, n
  <1>7. TableOf(k) \in Table
    BY DEF TableOf, Table
  <1> QED
    BY <1>6, <1>7 DEF Bucket, Place

\* What the walk through a bucket finds.
LEMMA WalkFinds ==
    ASSUME TableTypes, NEW k \in Key
    PROVE  LET c == chain[Bucket(k)]
           IN  \/ FirstMatch(k) = 0 /\ \A i \in 1 .. Len(c) : key[c[i]] # k
               \/ FirstMatch(k) \in 1 .. Len(c) /\ key[c[FirstMatch(k)]] = k
  <1> DEFINE c == chain[Bucket(k)]
             I == {i \in 1 .. Len(c) : key[c[i]] = k}
  <1>1. FirstMatch(k) = IF I # {} THEN Min(I) ELSE 0
    BY DEF FirstMatch, SelectInSeq
  <1>2. Len(c) \in Nat /\ I \subseteq 1 .. Len(c)
    BY BucketExists DEF TableTypes
  <1>3. CASE I = {}
    BY <1>1, <1>3
  <1>4. CASE I # {}
    <2> HIDE DEF I
    <2>1. Min(I) \in I
      BY <1>2, <1>4, MinIsFirst
    <2> QED
      BY <1>1, <1>4, <2>1 DEF I
  <1> QED
    BY <1>3, <1>4

\* An object in the tables is found under its key, and nothing under other keys.
LEMMA LookupFinds ==
    ASSUME TableTypes, key \in [Object -> Key], Linked \subseteq Object,
           Rows(chain, Linked, key), KeysDiffer(Linked, key), NEW k \in Key
    PROVE  /\ \A o \in Linked : key[o] = k =>
                 /\ FirstMatch(k) \in 1 .. Len(chain[Bucket(k)])
                 /\ chain[Bucket(k)][FirstMatch(k)] = o
                 /\ Lookup(k) = o
           /\ (\A o \in Linked : key[o] # k) => FirstMatch(k) = 0 /\ Lookup(k) = Null
  <1> DEFINE c == chain[Bucket(k)]
             n == FirstMatch(k)
  <1>1. c \in Seq(Object) /\ ToSet(c) = {o \in Linked : Bucket(key[o]) = Bucket(k)}
    BY BucketExists DEF TableTypes, Rows
  <1>2. \A x : x \in ToSet(c) <=> \E i \in 1 .. Len(c) : c[i] = x
    BY <1>1, ToSetMembers
  <1>3. Lookup(k) = IF n = 0 THEN Null ELSE c[n]
    BY DEF Lookup
  <1>4. \/ n = 0 /\ \A i \in 1 .. Len(c) : key[c[i]] # k
        \/ n \in 1 .. Len(c) /\ key[c[n]] = k
    BY WalkFinds
  <1>5. n \in 1 .. Len(c) => n # 0 /\ c[n] \in Linked
    BY <1>1, <1>2
  <1> HIDE DEF c, n
  <1>6. ASSUME NEW o \in Linked, key[o] = k
        PROVE  n \in 1 .. Len(c) /\ c[n] = o /\ Lookup(k) = o
    <2>1. \E i \in 1 .. Len(c) : c[i] = o
      BY <1>1, <1>2, <1>6
    <2>2. n \in 1 .. Len(c) /\ key[c[n]] = k
      BY <1>4, <1>6, <2>1
    <2>3. c[n] = o
      BY <1>5, <1>6, <2>2 DEF KeysDiffer
    <2> QED
      BY <1>3, <1>5, <2>2, <2>3
  <1>7. ASSUME \A o \in Linked : key[o] # k
        PROVE  n = 0 /\ Lookup(k) = Null
    BY <1>3, <1>4, <1>5, <1>7
  <1> QED
    BY <1>6, <1>7 DEF c, n

\* A new head of a bucket.
LEMMA PrependMembers ==
    ASSUME NEW S, NEW s \in Seq(S), NEW x \in S
    PROVE  /\ <<x>> \o s \in Seq(S) /\ Len(<<x>> \o s) = Len(s) + 1
           /\ (<<x>> \o s)[1] = x
           /\ \A i \in 1 .. Len(s) : (<<x>> \o s)[i + 1] = s[i]
           /\ ToSet(<<x>> \o s) = ToSet(s) \cup {x}
  <1> DEFINE r == <<x>> \o s
  <1>1. /\ r \in Seq(S) /\ Len(r) = Len(s) + 1 /\ r[1] = x
        /\ \A i \in 1 .. Len(s) : r[i + 1] = s[i]
    OBVIOUS
  <1> HIDE DEF r
  <1>2. \A y : y \in ToSet(r) <=> \E i \in 1 .. Len(r) : r[i] = y
    BY <1>1, ToSetMembers
  <1>3. \A y : y \in ToSet(s) <=> \E i \in 1 .. Len(s) : s[i] = y
    BY ToSetMembers
  <1>4. Len(s) \in Nat
    OBVIOUS
  <1>5. ASSUME NEW y \in ToSet(r) PROVE y \in ToSet(s) \cup {x}
    <2>1. PICK i \in 1 .. Len(s) + 1 : r[i] = y
      BY <1>1, <1>2, <1>5
    <2>2. i = 1 \/ (i - 1 \in 1 .. Len(s) /\ r[(i - 1) + 1] = y)
      BY <1>4, <2>1
    <2> QED
      BY <1>1, <1>3, <2>1, <2>2
  <1>6. ASSUME NEW y \in ToSet(s) \cup {x} PROVE y \in ToSet(r)
    <2>1. y = x => y \in ToSet(r)
      BY <1>1, <1>2, <1>4
    <2>2. ASSUME NEW i \in 1 .. Len(s), s[i] = y PROVE y \in ToSet(r)
      <3>1. i + 1 \in 1 .. Len(r) /\ r[i + 1] = y
        BY <1>1, <1>4, <2>2
      <3> QED
        BY <1>2, <3>1
    <2> QED
      BY <1>3, <1>6, <2>1, <2>2
  <1> QED
    BY <1>1, <1>5, <1>6 DEF r

\* Chains with a new head in bucket b, and without the i-th link of b.
WithHead(c, b, o) == [c EXCEPT ![b] = <<o>> \o @]
Without(c, b, i)  == [c EXCEPT ![b] = RemoveAt(@, i)]

\* Bucket b of table x got longer by e, and the counter of that table with it.
Grown(c, d, x, b, e) == /\ \A p \in Place \ {<<x, b>>} : d[p] = c[p]
                        /\ Len(d[<<x, b>>]) = Len(c[<<x, b>>]) + e
Tallied(n, x, e)     == [n EXCEPT ![x] = @ + e]

LEMMA RowsWithHead ==
    ASSUME NEW c \in [Place -> Seq(Object)], NEW L, L \subseteq Object,
           NEW k \in [Object -> Key], Rows(c, L, k), NEW o \in Object, o \notin L,
           NEW b, b = Bucket(k[o])
    PROVE  /\ WithHead(c, b, o) \in [Place -> Seq(Object)]
           /\ Rows(WithHead(c, b, o), L \cup {o}, k)
           /\ Grown(c, WithHead(c, b, o), TableOf(k[o]), Hash(k[o]), 1)
  <1> DEFINE d == WithHead(c, b, o)
             s == c[b]
             r == <<o>> \o s
  <1>1. b \in Place /\ s \in Seq(Object)
    BY BucketExists
  <1>0. b = <<TableOf(k[o]), Hash(k[o])>>
    BY BucketExists
  <1>2. /\ r \in Seq(Object) /\ Len(r) = Len(s) + 1 /\ r[1] = o
        /\ \A i \in 1 .. Len(s) : r[i + 1] = s[i]
        /\ ToSet(r) = ToSet(s) \cup {o}
    BY <1>1, PrependMembers
  <1>3. d = [c EXCEPT ![b] = r]
    BY DEF WithHead
  <1>4. /\ \A i, j \in 1 .. Len(s) : s[i] = s[j] => i = j
        /\ ToSet(s) = {x \in L : Bucket(k[x]) = b}
    BY <1>1 DEF Rows
  <1>5. Bucket(k[o]) = b
    OBVIOUS
  <1>6. \A i \in 1 .. Len(s) : s[i] # o
    <2>1. \A i \in 1 .. Len(s) : s[i] \in ToSet(s)
      BY <1>1, ToSetMembers
    <2> HIDE DEF s
    <2> QED
      BY <1>4, <2>1
  <1> HIDE DEF r, s, d
  <1>7. d \in [Place -> Seq(Object)] /\ d[b] = r /\ \A p \in Place \ {b} : d[p] = c[p]
    BY <1>1, <1>2, <1>3
  <1>8. \A i, j \in 1 .. Len(r) : r[i] = r[j] => i = j
    <2>1. Len(s) \in Nat
      BY <1>1
    <2>2. \A i \in 1 .. Len(r) : i = 1 \/ (i - 1 \in 1 .. Len(s) /\ r[i] = s[i - 1])
      <3>1. \A i \in 1 .. Len(r) : i = 1 \/ (i - 1 \in 1 .. Len(s) /\ (i - 1) + 1 = i)
        BY <1>2, <2>1
      <3> QED
        BY <1>2, <3>1
    <2>3. ASSUME NEW i \in 1 .. Len(r), NEW j \in 1 .. Len(r), r[i] = r[j] PROVE i = j
      <3>1. i = 1 <=> j = 1
        BY <1>2, <1>6, <2>2, <2>3
      <3>2. CASE i # 1
        <4>1. s[i - 1] = s[j - 1] /\ i - 1 \in 1 .. Len(s) /\ j - 1 \in 1 .. Len(s)
          BY <2>2, <2>3, <3>1, <3>2
        <4>2. i - 1 = j - 1
          BY <1>4, <4>1
        <4> QED
          BY <4>2
      <3> QED
        BY <3>1, <3>2
    <2> QED
      BY <2>3
  <1>9. ToSet(r) = {x \in L \cup {o} : Bucket(k[x]) = b}
    BY <1>2, <1>4, <1>5
  <1>10. Rows(d, L \cup {o}, k)
    <2>1. ASSUME NEW p \in Place \ {b}
          PROVE  /\ \A i, j \in 1 .. Len(d[p]) : d[p][i] = d[p][j] => i = j
                 /\ ToSet(d[p]) = {x \in L \cup {o} : Bucket(k[x]) = p}
      BY <1>5, <1>7 DEF Rows
    <2>2. /\ \A i, j \in 1 .. Len(d[b]) : d[b][i] = d[b][j] => i = j
          /\ ToSet(d[b]) = {x \in L \cup {o} : Bucket(k[x]) = b}
      <3>1. PICK v : v = d[b]
        OBVIOUS
      <3>2. v = r
        BY <1>7, <3>1
      <3>3. /\ \A i, j \in 1 .. Len(v) : v[i] = v[j] => i = j
            /\ ToSet(v) = {x \in L \cup {o} : Bucket(k[x]) = b}
        BY <1>8, <1>9, <3>2
      <3> QED
        BY <3>1, <3>3
    <2>3. ASSUME NEW p \in Place
          PROVE  /\ \A i, j \in 1 .. Len(d[p]) : d[p][i] = d[p][j] => i = j
                 /\ ToSet(d[p]) = {x \in L \cup {o} : Bucket(k[x]) = p}
      <3>1. CASE p = b
        BY <2>2, <3>1
      <3>2. CASE p # b
        BY <2>1, <3>2
      <3> QED
        BY <3>1, <3>2
    <2> QED
      BY <2>3 DEF Rows
  <1> QED
    BY <1>0, <1>2, <1>7, <1>10 DEF d, s, Grown

\* The chains after the i-th link of a bucket was taken out.
LEMMA RowsWithout ==
    ASSUME NEW c \in [Place -> Seq(Object)], NEW L, L \subseteq Object,
           NEW k \in [Object -> Key], Rows(c, L, k), NEW b \in Place,
           NEW i \in 1 .. Len(c[b])
    PROVE  /\ Without(c, b, i) \in [Place -> Seq(Object)]
           /\ Rows(Without(c, b, i), L \ {c[b][i]}, k)
           /\ Grown(c, Without(c, b, i), b[1], b[2], -1)
  <1> DEFINE d == Without(c, b, i)
             s == c[b]
             r == RemoveAt(s, i)
             o == s[i]
  <1>1. s \in Seq(Object) /\ i \in 1 .. Len(s) /\ d = [c EXCEPT ![b] = r]
    BY DEF Without
  <1>0. b = <<b[1], b[2]>>
    BY DEF Place
  <1>2. /\ \A h, j \in 1 .. Len(s) : s[h] = s[j] => h = j
        /\ ToSet(s) = {x \in L : Bucket(k[x]) = b}
    BY DEF Rows
  <1>3. o \in ToSet(s)
    BY <1>1, ToSetMembers
  <1> HIDE DEF s
  <1>4. /\ r \in Seq(Object) /\ Len(r) = Len(s) - 1
        /\ \A j \in 1 .. Len(s) - 1 : r[j] = IF j < i THEN s[j] ELSE s[j + 1]
    BY <1>1, RemoveAtShifts
  <1>5. ToSet(r) = ToSet(s) \ {o}
    BY <1>1, <1>2, RemoveAtMembers
  <1> HIDE DEF r, o, d
  <1>6. d \in [Place -> Seq(Object)] /\ d[b] = r /\ \A p \in Place \ {b} : d[p] = c[p]
    BY <1>1, <1>4
  <1>7. \A h, j \in 1 .. Len(r) : r[h] = r[j] => h = j
    <2>1. Len(s) \in Nat
      BY <1>1
    <2>2. ASSUME NEW h \in 1 .. Len(r), NEW j \in 1 .. Len(r), r[h] = r[j] PROVE h = j
      <3>1. PICK x \in 1 .. Len(s) : r[h] = s[x] /\ x = IF h < i THEN h ELSE h + 1
        BY <1>1, <1>4, <2>1
      <3>2. PICK y \in 1 .. Len(s) : r[j] = s[y] /\ y = IF j < i THEN j ELSE j + 1
        BY <1>1, <1>4, <2>1
      <3>3. x = y
        BY <1>2, <2>2, <3>1, <3>2
      <3> QED
        BY <1>1, <3>1, <3>2, <3>3
    <2> QED
      BY <2>2
  <1>8. Rows(d, L \ {o}, k)
    <2>1. ASSUME NEW p \in Place \ {b}
          PROVE  /\ \A h, j \in 1 .. Len(d[p]) : d[p][h] = d[p][j] => h = j
                 /\ ToSet(d[p]) = {x \in L \ {o} : Bucket(k[x]) = p}
      <3>1. Bucket(k[o]) # p
        BY <1>2, <1>3
      <3> QED
        BY <1>6, <3>1 DEF Rows
    <2>2. ToSet(r) = {x \in L \ {o} : Bucket(k[x]) = b}
      BY <1>2, <1>5
    <2>3. ASSUME NEW p \in Place
          PROVE  /\ \A h, j \in 1 .. Len(d[p]) : d[p][h] = d[p][j] => h = j
                 /\ ToSet(d[p]) = {x \in L \ {o} : Bucket(k[x]) = p}
      <3>1. CASE p = b
        BY <1>6, <1>7, <2>2, <3>1
      <3>2. CASE p # b
        BY <2>1, <3>2
      <3> QED
        BY <3>1, <3>2
    <2> QED
      BY <2>3 DEF Rows
  <1> QED
    <2>1. Len(s) \in Nat /\ Len(s) - 1 = Len(s) + (-1)
      BY <1>1
    <2> QED
      BY <1>0, <1>4, <1>6, <1>8, <2>1 DEF d, s, o, Grown

LEMMA SlotChanges ==
    ASSUME NEW f \in [Slot -> Int], NEW v \in Int, NEW b \in Slot
    PROVE  SumFunction([f EXCEPT ![b] = v]) = SumFunction(f) - f[b] + v
  <1> DEFINE g == [f EXCEPT ![b] = v]
  <1>1. IsFiniteSet(Slot)
    BY FS_Interval, RegistryAssumption DEF Slot
  <1>2. g \in [Slot -> Int] /\ g[b] = v /\ \A q \in Slot \ {b} : g[q] = f[q]
    OBVIOUS
  <1> HIDE DEF g
  <1>3. \A q \in Slot : f[q] \in Int /\ g[q] \in Int
    BY <1>2
  <1>4. SumFunctionOnSet(g, Slot) = SumFunctionOnSet(f, Slot) - f[b] + g[b]
    BY <1>1, <1>2, <1>3, SumChanges
  <1>5. SumFunction(g) = SumFunctionOnSet(g, Slot) /\ SumFunction(f) = SumFunctionOnSet(f, Slot)
    BY <1>2 DEF SumFunction
  <1> QED
    BY <1>2, <1>4, <1>5 DEF g

\* The counter of a table follows the length of one of its buckets.
LEMMA CountFollows ==
    ASSUME NEW c \in [Place -> Seq(Object)], NEW d \in [Place -> Seq(Object)],
           NEW n \in [Table -> Int], Counted(c, n), NEW x \in Table, NEW b \in Slot,
           NEW e \in Int, Grown(c, d, x, b, e)
    PROVE  Tallied(n, x, e) \in [Table -> Int] /\ Counted(d, Tallied(n, x, e))
  <1> DEFINE m == Tallied(n, x, e)
  <1>1. m \in [Table -> Int] /\ m[x] = n[x] + e /\ \A t \in Table \ {x} : m[t] = n[t]
    BY DEF Tallied
  <1> HIDE DEF m
  <1>6. /\ \A p \in Place \ {<<x, b>>} : d[p] = c[p]
        /\ Len(d[<<x, b>>]) = Len(c[<<x, b>>]) + e
    BY DEF Grown
  <1>2. \A t \in Table : \A q \in Slot : <<t, q>> \in Place
    BY DEF Place
  <1>3. \A p \in Place : Len(c[p]) \in Int /\ Len(d[p]) \in Int
    OBVIOUS
  <1>4. ASSUME NEW t \in Table, t # x PROVE m[t] = SumFunction(Lengths(d, t))
    <2>1. Lengths(d, t) = Lengths(c, t)
      <3>1. \A q \in Slot : <<t, q>> \in Place \ {<<x, b>>}
        BY <1>4 DEF Place
      <3> QED
        BY <1>6, <3>1 DEF Lengths
    <2> QED
      BY <1>1, <1>4, <2>1 DEF Counted
  <1>5. m[x] = SumFunction(Lengths(d, x))
    <2>1. PICK f : f = Lengths(c, x)
      OBVIOUS
    <2>2. f \in [Slot -> Int] /\ f[b] = Len(c[<<x, b>>])
      <3>1. \A q \in Slot : Len(c[<<x, q>>]) \in Int
        BY <1>2, <1>3
      <3> QED
        BY <2>1, <3>1 DEF Lengths
    <2>3. PICK v \in Int : v = Len(d[<<x, b>>])
      BY <1>2, <1>3
    <2>4. Lengths(d, x) = [f EXCEPT ![b] = v]
      <3>1. \A q \in Slot \ {b} : <<x, q>> \in Place \ {<<x, b>>}
        BY DEF Place
      <3>2. \A q \in Slot \ {b} : Len(d[<<x, q>>]) = Len(c[<<x, q>>])
        BY <1>6, <3>1
      <3> QED
        BY <2>1, <2>3, <3>2 DEF Lengths
    <2>5. SumFunction(Lengths(d, x)) = SumFunction(f) - f[b] + v
      BY <2>2, <2>4, SlotChanges
    <2>6. n[x] = SumFunction(f) /\ n[x] \in Int
      BY <2>1 DEF Counted
    <2> QED
      BY <1>1, <1>6, <2>2, <2>3, <2>5, <2>6
  <1> QED
    BY <1>1, <1>4, <1>5 DEF Counted, m

-------------------------------------------------------------------------------
(* The steps of the tables. *)

LEMMA LinkedAreObjects ==
    ASSUME IInv, NEW o \in Linked
    PROVE  o \in Object /\ o \in live /\ ~Freeing(o)
  BY DEF IInv, Linked, Marked, Busy, Freeing, SubjectsDiffer

LEMMA ChainsStay ==
    ASSUME Chained, UNCHANGED <<chain, count>>, Linked' = Linked,
           \A o \in Linked : key'[o] = key[o],
           \A t \in Thread : pc'[t] = "link" =>
              /\ pc[t] = "link" /\ next'[t] = next[t]
              /\ subject'[t] = subject[t] /\ key'[subject[t]] = key[subject[t]]
    PROVE  Chained'
  <1>1. Rows(chain, Linked, key)'
    <2>1. \A p \in Place : {o \in Linked : Bucket(key'[o]) = p} = {o \in Linked : Bucket(key[o]) = p}
      OBVIOUS
    <2> QED
      BY <2>1 DEF Chained, Rows
  <1>2. Counted(chain, count)'
    BY DEF Chained, Counted, Lengths
  <1>3. KeysDiffer(Linked, key)'
    BY DEF Chained, KeysDiffer
  <1>4. \A t \in Thread : LinkIsReady(t)'
    BY DEF Chained, LinkIsReady
  <1>5. \A t, u \in Thread : pc'[t] = "link" /\ pc'[u] = "link" => t = u
    BY DEF Chained
  <1> QED
    BY <1>1, <1>2, <1>3, <1>4, <1>5 DEF Chained

\* A thread is about to publish a link and nobody else is.
LEMMA LinkPrepared ==
    ASSUME Chained, UNCHANGED <<chain, count>>, Linked' = Linked,
           \A o \in Linked : key'[o] = key[o], NEW t \in Thread,
           \A u \in Thread \ {t} : pc'[u] # "link",
           next'[t] = chain[Bucket(key'[subject'[t]])],
           \A o \in Linked : key[o] # key'[subject'[t]]
    PROVE  Chained'
  <1>1. Rows(chain, Linked, key)'
    <2>1. \A p \in Place : {o \in Linked : Bucket(key'[o]) = p} = {o \in Linked : Bucket(key[o]) = p}
      OBVIOUS
    <2> QED
      BY <2>1 DEF Chained, Rows
  <1>2. Counted(chain, count)'
    BY DEF Chained, Counted, Lengths
  <1>3. KeysDiffer(Linked, key)'
    BY DEF Chained, KeysDiffer
  <1>4. \A u \in Thread : LinkIsReady(u)'
    BY DEF LinkIsReady
  <1>5. \A u, v \in Thread : pc'[u] = "link" /\ pc'[v] = "link" => u = v
    OBVIOUS
  <1> QED
    BY <1>1, <1>2, <1>3, <1>4, <1>5 DEF Chained

\* The tables do not change where the threads have not met, and are well formed where
\* they have.
LEMMA UpdateFacts ==
    ASSUME NEW c \in [Place -> Seq(Object)], NEW n \in [Table -> Int],
           NEW t \in Thread, Meets(t) \/ UNCHANGED raced, TableTypes, Update(c, n)
    PROVE  /\ chain' \in [Place -> Seq(Object)] /\ count' \in [Table -> Int]
           /\ raced' \in BOOLEAN /\ (~raced' => ~raced /\ chain' = c /\ count' = n)
  <1>1. NoLinks \in [Place -> Seq(Object)] /\ NoCount \in [Table -> Int]
    <2>1. NoLinks = [p \in Place |-> <<>>] /\ <<>> \in Seq(Object)
      BY DEF NoLinks, Place, Slot
    <2> QED
      BY <2>1 DEF NoCount
  <1>2. raced' \in BOOLEAN /\ (~raced' => ~raced)
    BY DEF Meets, TableTypes
  <1>3. chain' = (IF raced' THEN NoLinks ELSE c) /\ count' = (IF raced' THEN NoCount ELSE n)
    BY DEF Update
  <1> QED
    BY <1>1, <1>2, <1>3

LEMMA MeetsNobody ==
    ASSUME NEW t \in Thread, Meets(t), ~raced'
    PROVE  ~raced /\ \A u \in Thread \ {t} : pc[u] \notin {"key", "link"}
  BY DEF Meets, AtTables

LEMMA ConstructTables ==
    ASSUME IInv, TInv, NEW o \in Object, Construct(o)
    PROVE  TInv'
  <1>1. /\ o \notin live /\ live' = live \cup {o}
        /\ key' = [key EXCEPT ![o] = DefaultKey] /\ active' = [active EXCEPT ![o] = FALSE]
        /\ UNCHANGED <<chain, count, pc, subject, next, raced>>
    BY DEF Construct, threads
  <1>2. TableTypes'
    BY <1>1 DEF TInv, TableTypes
  <1>3. SubjectsLive'
    BY <1>1 DEF TInv, TableTypes, SubjectsLive
  <1>4. ~Marked(o)
    BY <1>1 DEF TInv, SubjectsLive, Marked
  <1>5. Linked' = Linked
    BY <1>1, <1>4 DEF Linked, Marked, Busy, TInv, TableTypes, IInv
  <1>6. \A x \in Linked : key'[x] = key[x]
    BY <1>1 DEF Linked, IInv, Typed
  <1>7. \A t \in Thread : pc[t] # "idle" => key'[subject[t]] = key[subject[t]]
    BY <1>1 DEF TInv, SubjectsLive, IInv, Typed
  <1>8. Chained => Chained'
    BY <1>1, <1>5, <1>6, <1>7, ChainsStay
  <1> QED
    BY <1>1, <1>2, <1>3, <1>8 DEF TInv

LEMMA RegisterTables ==
    ASSUME IInv, TInv, NEW t \in Thread, NEW o \in Object,
           NEW k \in ExplicitKeys \cup {DefaultKey}, Register(t, o, k)
    PROVE  TInv'
  <1>1. /\ pc[t] = "idle" /\ o \in live /\ ~active[o] /\ ~Busy(o)
        /\ Null \in Found(k) /\ Update(chain, count)
        /\ subject' = [subject EXCEPT ![t] = o]
        /\ next' = [next EXCEPT ![t] = IF k = DefaultKey THEN <<>> ELSE chain[Bucket(k)]]
        /\ UNCHANGED <<live, active>>
    BY DEF Register
  <1>2. \/ /\ k = DefaultKey /\ pc' = [pc EXCEPT ![t] = "acquire"]
           /\ UNCHANGED <<key, raced>>
        \/ /\ k # DefaultKey /\ pc' = [pc EXCEPT ![t] = "link"]
           /\ key' = [key EXCEPT ![o] = k] /\ Meets(t)
    BY DEF Register
  <1>3. k \in Key
    BY RegistryAssumption
  <1>4. /\ chain' \in [Place -> Seq(Object)] /\ count' \in [Table -> Int]
        /\ raced' \in BOOLEAN
        /\ ~raced' => ~raced /\ UNCHANGED <<chain, count>>
    BY <1>1, <1>2, UpdateFacts DEF TInv, TableTypes
  <1>5. TableTypes'
    <2>1. chain[Bucket(k)] \in Seq(Object) /\ <<>> \in Seq(Object)
      BY <1>3, BucketExists DEF TInv, TableTypes
    <2> QED
      BY <1>1, <1>4, <2>1 DEF TInv, TableTypes
  <1>6. PICK step \in {"acquire", "link"} : pc' = [pc EXCEPT ![t] = step]
    BY <1>2
  <1>7. SubjectsLive'
    BY <1>1, <1>6 DEF TInv, SubjectsLive, IInv, Typed
  <1>8. o \notin Linked
    BY <1>1 DEF Linked, Marked, Busy
  <1>9. Linked' = Linked
    <2>1. \A x : Marked(x)' <=> Marked(x)
      BY <1>1, <1>6 DEF Marked, IInv, Typed
    <2>2. \A x : x # o => (Busy(x)' <=> Busy(x))
      BY <1>1, <1>6 DEF Busy, IInv, Typed
    <2> QED
      BY <1>1, <1>8, <2>1, <2>2 DEF Linked
  <1>10. \A x \in Linked : key'[x] = key[x]
    BY <1>2, <1>8, LinkedAreObjects DEF IInv, Typed
  <1>11. ASSUME ~raced' PROVE Chained'
    <2>1. Chained /\ ~raced /\ UNCHANGED <<chain, count>>
      BY <1>4, <1>11 DEF TInv
    <2>2. CASE k = DefaultKey
      <3>1. \A u \in Thread : pc'[u] = "link" =>
              /\ pc[u] = "link" /\ next'[u] = next[u]
              /\ subject'[u] = subject[u] /\ key'[subject[u]] = key[subject[u]]
        BY <1>1, <1>2, <2>2 DEF IInv, Typed, TInv, TableTypes
      <3> QED
        BY <1>9, <1>10, <2>1, <3>1, ChainsStay
    <2>3. CASE k # DefaultKey
      <3>1. /\ pc' = [pc EXCEPT ![t] = "link"] /\ key' = [key EXCEPT ![o] = k] /\ Meets(t)
        BY <1>2, <2>3
      <3>2. \A u \in Thread \ {t} : pc'[u] # "link"
        BY <1>11, <3>1, MeetsNobody DEF IInv, Typed
      <3>3. subject'[t] = o /\ key'[o] = k /\ next'[t] = chain[Bucket(k)]
        BY <1>1, <2>3, <3>1 DEF IInv, Typed, TInv, TableTypes
      <3>4. \A x \in Linked : key[x] # k
        <4>1. Lookup(k) = Null
          BY <1>1, <2>1 DEF Found
        <4>2. \A x \in Linked : key[x] = k => Lookup(k) = x
          BY <1>3, <2>1, LookupFinds, LinkedAreObjects
             DEF TInv, Chained, IInv, Typed
        <4> QED
          BY <4>1, <4>2, LinkedAreObjects, RegistryAssumption
      <3> QED
        BY <1>9, <1>10, <2>1, <3>2, <3>3, <3>4, LinkPrepared
    <2> QED
      BY <2>2, <2>3
  <1> QED
    BY <1>5, <1>7, <1>11 DEF TInv

\* The drawing of an id.
LEMMA DrawTables ==
    ASSUME IInv, TInv, NEW t \in Thread, pc[t] \in {"acquire", "read", "write", "release"},
           NEW step \in {"read", "write", "release", "key"}, pc' = [pc EXCEPT ![t] = step],
           UNCHANGED <<chain, count, live, key, active, subject, next, raced>>
    PROVE  TInv'
  <1>1. TableTypes' /\ SubjectsLive'
    BY DEF TInv, TableTypes, SubjectsLive, IInv, Typed
  <1>2. Linked' = Linked
    <2>1. \A x : (Marked(x)' <=> Marked(x)) /\ (Busy(x)' <=> Busy(x))
      BY DEF Marked, Busy, IInv, Typed
    <2> QED
      BY <2>1 DEF Linked
  <1>3. \A u \in Thread : pc'[u] = "link" => pc[u] = "link"
    BY DEF IInv, Typed
  <1>4. Chained => Chained'
    BY <1>2, <1>3, ChainsStay
  <1> QED
    BY <1>1, <1>4 DEF TInv

LEMMA WriteKeyTables ==
    ASSUME IInv, TInv, NEW t \in Thread, WriteKey(t)
    PROVE  TInv'
  <1> DEFINE s == subject[t]
             k == <<AutoKind, edx[t]>>
  <1>1. /\ pc[t] = "key" /\ pc' = [pc EXCEPT ![t] = "link"]
        /\ key' = [key EXCEPT ![s] = k] /\ next' = [next EXCEPT ![t] = chain[Bucket(k)]]
        /\ Meets(t) /\ Update(chain, count)
        /\ UNCHANGED <<live, active, subject>>
    BY DEF WriteKey
  <1>2. k \in Key /\ s \in Object /\ s \in live /\ ~active[s]
    BY <1>1, RegistryAssumption DEF Key, IInv, Typed, TInv, SubjectsLive
  <1> HIDE DEF s
  <1>3. /\ chain' \in [Place -> Seq(Object)] /\ count' \in [Table -> Int]
        /\ raced' \in BOOLEAN
        /\ ~raced' => ~raced /\ UNCHANGED <<chain, count>>
    BY <1>1, UpdateFacts DEF TInv, TableTypes
  <1>4. TableTypes'
    <2>1. chain[Bucket(k)] \in Seq(Object)
      BY <1>2, BucketExists DEF TInv, TableTypes
    <2> QED
      BY <1>1, <1>3, <2>1 DEF TInv, TableTypes
  <1>5. SubjectsLive'
    BY <1>1 DEF TInv, SubjectsLive, IInv, Typed
  <1>6. s \notin Linked /\ ~Freeing(s)
    BY <1>1, <1>2 DEF s, Linked, Marked, Busy, Freeing, IInv, SubjectsDiffer
  <1>7. Linked' = Linked
    <2>1. \A x : (Marked(x)' <=> Marked(x)) /\ (Busy(x)' <=> Busy(x))
      BY <1>1 DEF Marked, Busy, IInv, Typed
    <2> QED
      BY <1>1, <2>1 DEF Linked
  <1>8. \A x \in Linked : key'[x] = key[x]
    BY <1>1, <1>6, LinkedAreObjects DEF IInv, Typed
  <1>9. ASSUME ~raced' PROVE Chained'
    <2>1. Chained /\ ~raced /\ UNCHANGED <<chain, count>>
      BY <1>3, <1>9 DEF TInv
    <2>2. \A u \in Thread \ {t} : pc'[u] # "link"
      BY <1>1, <1>9, MeetsNobody DEF IInv, Typed
    <2>3. subject'[t] = s /\ key'[s] = k /\ next'[t] = chain[Bucket(k)]
      BY <1>1, <1>2 DEF s, IInv, Typed, TInv, TableTypes
    <2>4. \A x \in Linked : key[x] # k
      <3>1. ASSUME NEW x \in Linked, key[x] = k PROVE FALSE
        <4>1. Holds(x) /\ x \in Object /\ key[x][2] = edx[t]
          BY <3>1, LinkedAreObjects DEF Holds, Automatic
        <4>2. InHand(t)
          BY <1>1 DEF InHand
        <4> QED
          BY <4>1, <4>2 DEF IInv, IdsAreSpread
      <3> QED
        BY <3>1
    <2> QED
      BY <1>7, <1>8, <2>1, <2>2, <2>3, <2>4, LinkPrepared
  <1> QED
    BY <1>4, <1>5, <1>9 DEF TInv

\* The link becomes the head of its bucket.
LEMMA LinkTables ==
    ASSUME IInv, TInv, NEW t \in Thread, Link(t)
    PROVE  TInv'
  <1> DEFINE s == subject[t]
             k == key[s]
             b == Bucket(k)
             c == [chain EXCEPT ![b] = <<s>> \o next[t]]
             n == [count EXCEPT ![TableOf(k)] = @ + 1]
  <1>1. /\ pc[t] = "link" /\ pc' = [pc EXCEPT ![t] = "mark"]
        /\ next' = [next EXCEPT ![t] = <<>>]
        /\ Update(c, n)
        /\ UNCHANGED <<raced, live, key, active, subject>>
    BY DEF Link
  <1>2. s \in Object /\ s \in live /\ ~active[s] /\ k \in Key
    BY <1>1 DEF IInv, Typed, TInv, SubjectsLive
  <1>3. TableOf(k) \in Table /\ Hash(k) \in Slot /\ b = <<TableOf(k), Hash(k)>> /\ b \in Place
    BY <1>2, BucketExists
  <1>4. next[t] \in Seq(Object) /\ TableTypes
    BY DEF TInv, TableTypes
  <1>5. c \in [Place -> Seq(Object)] /\ n \in [Table -> Int]
    <2>1. <<s>> \o next[t] \in Seq(Object)
      BY <1>2, <1>4, PrependMembers
    <2> HIDE DEF b
    <2> QED
      BY <1>3, <1>4, <2>1 DEF TableTypes
  <1> HIDE DEF s, k, b, c, n
  <1>6. /\ chain' \in [Place -> Seq(Object)] /\ count' \in [Table -> Int]
        /\ raced' \in BOOLEAN
        /\ ~raced' => ~raced /\ chain' = c /\ count' = n
    BY <1>1, <1>4, <1>5, UpdateFacts
  <1>7. TableTypes'
    <2>1. <<>> \in Seq(Object)
      OBVIOUS
    <2> QED
      BY <1>1, <1>6, <2>1 DEF TInv, TableTypes
  <1>8. SubjectsLive'
    BY <1>1 DEF TInv, SubjectsLive, IInv, Typed
  <1>9. s \notin Linked
    BY <1>1, <1>2 DEF s, Linked, Marked, Busy, IInv, SubjectsDiffer
  <1>10. Linked' = Linked \cup {s}
    <2>1. \A x : Busy(x)' <=> Busy(x)
      BY <1>1 DEF Busy, IInv, Typed
    <2>2. \A x : Marked(x)' <=> Marked(x) \/ x = s
      BY <1>1 DEF s, Marked, IInv, Typed
    <2>3. \A x : x \in Linked' <=> x \in Linked \cup {s}
      BY <1>1, <1>2, <2>1, <2>2 DEF Linked
    <2> QED
      BY <2>3
  <1>11. ASSUME ~raced' PROVE Chained'
    <2>1. Chained /\ ~raced /\ chain' = c /\ count' = n
      BY <1>6, <1>11 DEF TInv
    <2>2. next[t] = chain[b] /\ \A o \in Linked : key[o] # k
      BY <1>1, <2>1 DEF Chained, LinkIsReady, s, k, b
    <2>3. c = WithHead(chain, b, s) /\ n = Tallied(count, TableOf(k), 1)
      BY <2>2 DEF c, n, WithHead, Tallied
    <2>4. Linked \subseteq Object
      BY LinkedAreObjects
    <2>5. /\ Rows(c, Linked \cup {s}, key)
          /\ Grown(chain, c, TableOf(k), Hash(k), 1)
      <3>1. /\ chain \in [Place -> Seq(Object)] /\ key \in [Object -> Key]
            /\ Rows(chain, Linked, key) /\ b = Bucket(key[s])
        BY <1>4, <2>1 DEF TableTypes, Chained, IInv, Typed, b, k
      <3> QED
        BY <1>2, <1>9, <2>3, <2>4, <3>1, RowsWithHead DEF k
    <2>6. Counted(c, n)
      <3>1. /\ chain \in [Place -> Seq(Object)] /\ count \in [Table -> Int]
            /\ Counted(chain, count) /\ 1 \in Int
        BY <1>4, <2>1 DEF TableTypes, Chained
      <3> QED
        BY <1>3, <1>5, <2>3, <2>5, <3>1, CountFollows
    <2>7. Rows(chain, Linked, key)' /\ Counted(chain, count)'
      <3>1. key' = key
        BY <1>1
      <3> QED
        BY <1>10, <2>1, <2>5, <2>6, <3>1 DEF Rows, Counted, Lengths
    <2>8. KeysDiffer(Linked, key)'
      BY <1>1, <1>10, <2>1, <2>2 DEF Chained, KeysDiffer, k
    <2>9. \A u \in Thread : pc'[u] # "link"
      BY <1>1, <2>1 DEF Chained, IInv, Typed
    <2> QED
      BY <2>7, <2>8, <2>9 DEF Chained, LinkIsReady
  <1> QED
    BY <1>7, <1>8, <1>11 DEF TInv

LEMMA MarkTables ==
    ASSUME IInv, TInv, NEW t \in Thread, Mark(t)
    PROVE  TInv'
  <1> DEFINE s == subject[t]
  <1>1. /\ pc[t] = "mark" /\ pc' = [pc EXCEPT ![t] = "idle"]
        /\ active' = [active EXCEPT ![s] = TRUE] /\ subject' = [subject EXCEPT ![t] = Null]
        /\ UNCHANGED <<chain, count, live, key, next, raced>>
    BY DEF Mark
  <1>2. s \in Object /\ s \in live
    BY <1>1 DEF IInv, Typed, TInv, SubjectsLive
  <1>3. \A u \in Thread \ {t} : pc[u] # "idle" => subject[u] # s
    BY <1>1 DEF IInv, SubjectsDiffer
  <1>4. \A x : Busy(x)' <=> Busy(x) /\ x # s
    BY <1>1, <1>3 DEF Busy, IInv, Typed
  <1>5. \A x : Marked(x)' <=> Marked(x) /\ x # s
    BY <1>1, <1>3 DEF Marked, IInv, Typed
  <1>6. Marked(s)
    BY <1>1 DEF Marked
  <1> HIDE DEF s
  <1>7. TableTypes' /\ SubjectsLive'
    <2>1. TableTypes'
      BY <1>1, <1>2 DEF TInv, TableTypes
    <2>2. SubjectsLive'
      BY <1>1, <1>2, <1>3 DEF TInv, TableTypes, SubjectsLive, IInv, Typed
    <2> QED
      BY <2>1, <2>2
  <1>8. Linked' = Linked
    <2>1. \A x \in Object : active'[x] = IF x = s THEN TRUE ELSE active[x]
      BY <1>1 DEF TInv, TableTypes
    <2>2. \A x : x \in Linked' <=> x \in Linked
      BY <1>1, <1>2, <1>4, <1>5, <1>6, <2>1 DEF Linked, IInv
    <2> QED
      BY <2>2
  <1>9. Chained => Chained'
    <2>1. \A u \in Thread : pc'[u] = "link" => pc[u] = "link" /\ subject'[u] = subject[u]
      BY <1>1 DEF IInv, Typed
    <2> QED
      BY <1>1, <1>8, <2>1, ChainsStay
  <1> QED
    BY <1>1, <1>7, <1>9 DEF TInv

LEMMA FreeTables ==
    ASSUME IInv, TInv, NEW t \in Thread, Free(t)
    PROVE  TInv'
  <1> DEFINE s == subject[t]
  <1>1. /\ pc[t] = "free" /\ pc' = [pc EXCEPT ![t] = "idle"]
        /\ key' = [key EXCEPT ![s] = DefaultKey] /\ active' = [active EXCEPT ![s] = FALSE]
        /\ live' = live \ {s} /\ subject' = [subject EXCEPT ![t] = Null]
        /\ UNCHANGED <<chain, count, next, raced>>
    BY DEF Free
  <1>2. s \in Object /\ s \in live
    BY <1>1 DEF IInv, Typed, TInv, SubjectsLive
  <1>3. \A u \in Thread \ {t} : pc[u] # "idle" => subject[u] # s
    BY <1>1 DEF IInv, SubjectsDiffer
  <1>4. \A x : Busy(x)' <=> Busy(x) /\ x # s
    BY <1>1, <1>3 DEF Busy, IInv, Typed
  <1>5. \A x : Marked(x)' <=> Marked(x)
    BY <1>1, <1>3 DEF Marked, IInv, Typed
  <1>6. ~Marked(s) /\ Busy(s)
    BY <1>1, <1>3 DEF Marked, Busy
  <1> HIDE DEF s
  <1>7. TableTypes' /\ SubjectsLive'
    <2>1. TableTypes'
      BY <1>1, <1>2 DEF TInv, TableTypes
    <2>2. SubjectsLive'
      BY <1>1, <1>2, <1>3 DEF TInv, TableTypes, SubjectsLive, IInv, Typed
    <2> QED
      BY <2>1, <2>2
  <1>8. s \notin Linked
    BY <1>6 DEF Linked
  <1>9. Linked' = Linked
    <2>1. \A x \in Object : active'[x] = IF x = s THEN FALSE ELSE active[x]
      BY <1>1 DEF TInv, TableTypes
    <2>2. \A x : x \in Linked' <=> x \in Linked
      BY <1>1, <1>2, <1>4, <1>5, <1>6, <2>1 DEF Linked, IInv
    <2> QED
      BY <2>2
  <1>10. Chained => Chained'
    <2>1. \A u \in Thread : pc'[u] = "link" =>
            /\ pc[u] = "link" /\ subject'[u] = subject[u]
            /\ key'[subject[u]] = key[subject[u]]
      BY <1>1, <1>3 DEF IInv, Typed, TInv, SubjectsLive
    <2>2. \A x \in Linked : key'[x] = key[x]
      BY <1>1, <1>8, LinkedAreObjects DEF IInv, Typed
    <2> QED
      BY <1>1, <1>9, <2>1, <2>2, ChainsStay
  <1> QED
    BY <1>1, <1>7, <1>10 DEF TInv

\* An object leaves the tables with its old key.
LEMMA DeregisterTables ==
    ASSUME IInv, TInv, NEW t \in Thread, NEW o \in Object, Deregister(t, o)
    PROVE  TInv'
  <1> DEFINE k == key[o]
             b == Bucket(k)
             i == FirstMatch(k)
             c == IF active[o] /\ i # 0 THEN Without(chain, b, i) ELSE chain
             n == IF active[o] /\ i # 0 THEN Tallied(count, TableOf(k), -1) ELSE count
  <1>1. /\ pc[t] = "idle" /\ o \in live /\ ~Busy(o)
        /\ subject' = [subject EXCEPT ![t] = o] /\ pc' = [pc EXCEPT ![t] = "free"]
        /\ UNCHANGED <<live, active, next>>
    BY DEF Deregister
  <1>2. \/ active[o] /\ Meets(t) /\ Unlink(k) /\ key' = [key EXCEPT ![o] = <<key[o][2], Tomb>>]
        \/ ~active[o] /\ UNCHANGED <<chain, count, key, raced>>
    BY DEF Deregister
  <1>3. k \in Key /\ TableTypes
    BY DEF IInv, Typed, TInv
  <1>4. TableOf(k) \in Table /\ Hash(k) \in Slot /\ b = <<TableOf(k), Hash(k)>> /\ b \in Place
    BY <1>3, BucketExists
  <1>5. i # 0 => i \in 1 .. Len(chain[b])
    BY <1>3, WalkFinds
  <1> HIDE DEF k, b, i
  <1>6. c \in [Place -> Seq(Object)] /\ n \in [Table -> Int]
    <2>1. i # 0 => RemoveAt(chain[b], i) \in Seq(Object)
      BY <1>3, <1>4, <1>5, RemoveAtShifts DEF TableTypes
    <2>2. i # 0 => Without(chain, b, i) \in [Place -> Seq(Object)]
      BY <1>3, <1>4, <2>1 DEF TableTypes, Without
    <2>3. Tallied(count, TableOf(k), -1) \in [Table -> Int]
      BY <1>3, <1>4 DEF TableTypes, Tallied
    <2> QED
      BY <1>3, <2>2, <2>3 DEF TableTypes
  <1>7. \/ active[o] /\ Meets(t) /\ Update(c, n) /\ key' = [key EXCEPT ![o] = <<key[o][2], Tomb>>]
        \/ ~active[o] /\ UNCHANGED <<chain, count, key, raced>>
    <2>1. active[o] /\ Unlink(k) => Update(c, n)
      <3>1. CASE active[o] /\ i # 0
        <4>1. c = Without(chain, b, i) /\ n = Tallied(count, TableOf(k), -1)
          BY <3>1
        <4>2. [count EXCEPT ![TableOf(k)] = @ - 1] = Tallied(count, TableOf(k), -1)
          BY <1>3, <1>4 DEF TableTypes, Tallied
        <4>3. Unlink(k) => Update([chain EXCEPT ![b] = RemoveAt(@, i)],
                                  [count EXCEPT ![TableOf(k)] = @ - 1])
          BY <3>1 DEF Unlink, b, i
        <4> QED
          BY <4>1, <4>2, <4>3 DEF Without
      <3>2. CASE active[o] /\ i = 0
        BY <3>2 DEF Unlink, i
      <3> QED
        BY <3>1, <3>2
    <2> QED
      BY <1>2, <2>1
  <1> HIDE DEF c, n
  <1>8. /\ chain' \in [Place -> Seq(Object)] /\ count' \in [Table -> Int]
        /\ raced' \in BOOLEAN
        /\ ~raced' => ~raced /\ (active[o] => chain' = c /\ count' = n)
    BY <1>3, <1>6, <1>7, UpdateFacts DEF TableTypes
  <1>9. TableTypes' /\ SubjectsLive'
    <2>1. TableTypes'
      BY <1>1, <1>3, <1>8 DEF TableTypes
    <2>2. SubjectsLive'
      BY <1>1 DEF TInv, SubjectsLive, IInv, Typed
    <2> QED
      BY <2>1, <2>2
  <1>10. \A x : Busy(x)' <=> Busy(x) \/ x = o
    BY <1>1 DEF Busy, IInv, Typed
  <1>11. ~Marked(o) /\ \A x : Marked(x)' <=> Marked(x)
    BY <1>1 DEF Marked, Busy, IInv, Typed
  <1>12. Linked' = Linked \ {o}
    <2>1. \A x : x \in Linked' <=> x \in Linked \ {o}
      BY <1>1, <1>10, <1>11 DEF Linked
    <2> QED
      BY <2>1
  <1>13. ASSUME NEW x \in Linked' PROVE x \in Linked /\ key'[x] = key[x]
    BY <1>7, <1>12, LinkedAreObjects DEF IInv, Typed
  <1>14. ASSUME ~raced', active[o] PROVE Chained'
    <2>1. Chained /\ chain' = c /\ count' = n /\ Meets(t)
      BY <1>7, <1>8, <1>14 DEF TInv
    <2>2. o \in Linked
      BY <1>1, <1>14 DEF Linked
    <2>3. Linked \subseteq Object /\ key \in [Object -> Key]
      BY LinkedAreObjects DEF IInv, Typed
    <2>4. i \in 1 .. Len(chain[b]) /\ chain[b][i] = o
      BY <1>3, <2>1, <2>2, <2>3, LookupFinds DEF Chained, k, b, i
    <2>5. i # 0
      BY <1>3, <1>4, <2>4 DEF TableTypes
    <2>6. c = Without(chain, b, i) /\ n = Tallied(count, TableOf(k), -1)
      BY <1>14, <2>5 DEF c, n
    <2>7. Rows(c, Linked \ {o}, key) /\ Grown(chain, c, TableOf(k), Hash(k), -1)
      <3>1. chain \in [Place -> Seq(Object)] /\ Rows(chain, Linked, key)
        BY <1>3, <2>1 DEF TableTypes, Chained
      <3>2. Rows(c, Linked \ {o}, key) /\ Grown(chain, c, b[1], b[2], -1)
        BY <1>4, <2>3, <2>4, <2>6, <3>1, RowsWithout
      <3> QED
        BY <1>4, <3>2
    <2>8. Counted(c, n)
      <3>1. /\ chain \in [Place -> Seq(Object)] /\ count \in [Table -> Int]
            /\ Counted(chain, count) /\ -1 \in Int
        BY <1>3, <2>1 DEF TableTypes, Chained
      <3> QED
        BY <1>4, <1>6, <2>6, <2>7, <3>1, CountFollows
    <2>9. Rows(chain, Linked, key)'
      <3>1. \A p \in Place : {x \in Linked' : Bucket(key'[x]) = p}
                               = {x \in Linked \ {o} : Bucket(key[x]) = p}
        BY <1>12, <1>13
      <3> QED
        BY <2>1, <2>7, <3>1 DEF Rows
    <2>10. Counted(chain, count)'
      BY <2>1, <2>8 DEF Counted, Lengths
    <2>11. KeysDiffer(Linked, key)'
      BY <1>13, <2>1 DEF Chained, KeysDiffer
    <2>12. \A u \in Thread : pc'[u] # "link"
      BY <1>1, <1>14, <2>1, MeetsNobody DEF IInv, Typed
    <2> QED
      BY <2>9, <2>10, <2>11, <2>12 DEF Chained, LinkIsReady
  <1>15. ASSUME ~raced', ~active[o] PROVE Chained'
    <2>1. Chained /\ UNCHANGED <<chain, count, key>>
      BY <1>7, <1>15 DEF TInv
    <2>2. Linked' = Linked
      BY <1>11, <1>12, <1>15 DEF Linked
    <2>3. \A u \in Thread : pc'[u] = "link" => pc[u] = "link" /\ subject'[u] = subject[u]
      BY <1>1 DEF IInv, Typed
    <2> QED
      BY <1>1, <2>1, <2>2, <2>3, ChainsStay
  <1> QED
    BY <1>9, <1>14, <1>15 DEF TInv

\* An object leaves its bucket and becomes its head.
LEMMA ReinsertTables ==
    ASSUME IInv, TInv, NEW t \in Thread, NEW o \in Object, Reinsert(t, o)
    PROVE  TInv'
  <1> DEFINE k == key[o]
             b == Bucket(k)
             i == FirstMatch(k)
             w == Without(chain, b, i)
             c == IF i = 0 THEN WithHead(chain, b, o) ELSE WithHead(w, b, o)
             n == IF i = 0 THEN Tallied(count, TableOf(k), 1) ELSE count
  <1>1. /\ pc[t] = "idle" /\ o \in live /\ active[o] /\ ~Busy(o) /\ Meets(t)
        /\ UNCHANGED <<live, key, active, pc, subject, next>>
    BY DEF Reinsert, threads
  <1>2. k \in Key /\ TableTypes
    BY DEF IInv, Typed, TInv
  <1>3. TableOf(k) \in Table /\ Hash(k) \in Slot /\ b = <<TableOf(k), Hash(k)>> /\ b \in Place
    BY <1>2, BucketExists
  <1>4. i # 0 => i \in 1 .. Len(chain[b])
    BY <1>2, WalkFinds
  <1>5. /\ i = 0 => Update([chain EXCEPT ![b] = <<o>> \o @], [count EXCEPT ![TableOf(k)] = @ + 1])
        /\ i # 0 => Update([chain EXCEPT ![b] = <<o>> \o RemoveAt(@, i)], count)
    BY DEF Reinsert
  <1> HIDE DEF k, b, i
  <1>6. i # 0 => w \in [Place -> Seq(Object)] /\ w[b] = RemoveAt(chain[b], i)
    <2>1. i # 0 => RemoveAt(chain[b], i) \in Seq(Object)
      BY <1>2, <1>3, <1>4, RemoveAtShifts DEF TableTypes
    <2> QED
      BY <1>2, <1>3, <2>1 DEF TableTypes, Without
  <1>7. ASSUME NEW d \in [Place -> Seq(Object)]
        PROVE  WithHead(d, b, o) \in [Place -> Seq(Object)]
    <2>1. <<o>> \o d[b] \in Seq(Object)
      BY <1>3, PrependMembers
    <2> QED
      BY <1>3, <2>1 DEF WithHead
  <1>8. c \in [Place -> Seq(Object)] /\ n \in [Table -> Int]
    <2>1. Tallied(count, TableOf(k), 1) \in [Table -> Int]
      BY <1>2, <1>3 DEF TableTypes, Tallied
    <2> HIDE DEF w
    <2> QED
      BY <1>2, <1>6, <1>7, <2>1 DEF TableTypes
  <1>9. Update(c, n)
    <2>1. CASE i = 0
      BY <1>5, <2>1 DEF WithHead, Tallied
    <2>2. CASE i # 0
      <3>1. [chain EXCEPT ![b] = <<o>> \o RemoveAt(@, i)] = WithHead(w, b, o)
        BY <1>2, <1>3, <1>6, <2>2 DEF WithHead, Without, TableTypes
      <3> QED
        BY <1>5, <2>2, <3>1
    <2> QED
      BY <2>1, <2>2
  <1> HIDE DEF c, n
  <1>10. /\ chain' \in [Place -> Seq(Object)] /\ count' \in [Table -> Int]
         /\ raced' \in BOOLEAN
         /\ ~raced' => ~raced /\ chain' = c /\ count' = n
    BY <1>1, <1>2, <1>8, <1>9, UpdateFacts
  <1>11. TableTypes' /\ SubjectsLive'
    BY <1>1, <1>2, <1>10 DEF TInv, TableTypes, SubjectsLive
  <1>12. Linked' = Linked
    BY <1>1 DEF Linked, Marked, Busy
  <1>13. ASSUME ~raced' PROVE Chained'
    <2>1. Chained /\ chain' = c /\ count' = n
      BY <1>10, <1>13 DEF TInv
    <2>2. o \in Linked
      BY <1>1 DEF Linked
    <2>3. Linked \subseteq Object /\ key \in [Object -> Key]
      BY LinkedAreObjects DEF IInv, Typed
    <2>4. i \in 1 .. Len(chain[b]) /\ chain[b][i] = o
      BY <1>2, <2>1, <2>2, <2>3, LookupFinds DEF Chained, k, b, i
    <2>5. i # 0
      BY <1>2, <1>3, <2>4 DEF TableTypes
    <2>6. c = WithHead(w, b, o) /\ n = count /\ w = Without(chain, b, i)
      BY <2>5 DEF c, n
    <2> HIDE DEF w
    <2>7. chain \in [Place -> Seq(Object)] /\ Rows(chain, Linked, key)
      BY <1>2, <2>1 DEF TableTypes, Chained
    <2>8. /\ w \in [Place -> Seq(Object)] /\ Rows(w, Linked \ {o}, key)
          /\ Grown(chain, w, b[1], b[2], -1)
      BY <1>3, <2>3, <2>4, <2>6, <2>7, RowsWithout
    <2>9. Rows(c, (Linked \ {o}) \cup {o}, key) /\ Grown(w, c, TableOf(k), Hash(k), 1)
      <3>1. Linked \ {o} \subseteq Object /\ o \notin Linked \ {o} /\ b = Bucket(key[o])
        BY <2>3 DEF b, k
      <3> QED
        BY <2>3, <2>6, <2>8, <3>1, RowsWithHead DEF k
    <2>10. (Linked \ {o}) \cup {o} = Linked
      BY <2>2
    <2>11. Counted(c, count)
      <3>1. PICK x \in Table, q \in Slot : b = <<x, q>> /\ x = TableOf(k) /\ q = Hash(k)
        BY <1>3
      <3>2. Grown(chain, w, x, q, -1) /\ Grown(w, c, x, q, 1)
        BY <2>8, <2>9, <3>1
      <3>3. Grown(chain, c, x, q, 0)
        <4>1. Len(chain[<<x, q>>]) \in Int
          BY <1>3, <2>7, <3>1
        <4> QED
          BY <3>2, <4>1 DEF Grown
      <3>4. Tallied(count, x, 0) = count
        BY <1>2 DEF TableTypes, Tallied
      <3>5. count \in [Table -> Int] /\ Counted(chain, count) /\ 0 \in Int
        BY <1>2, <2>1 DEF TableTypes, Chained
      <3>6. c \in [Place -> Seq(Object)]
        BY <1>8
      <3>7. Counted(c, Tallied(count, x, 0))
        BY <2>7, <3>3, <3>5, <3>6, CountFollows
      <3> QED
        BY <3>4, <3>7
    <2>12. Rows(chain, Linked, key)' /\ Counted(chain, count)'
      <3>1. Rows(c, Linked, key) /\ key' = key
        BY <1>1, <2>9, <2>10
      <3> QED
        BY <1>12, <2>1, <2>6, <2>11, <3>1 DEF Rows, Counted, Lengths
    <2>13. KeysDiffer(Linked, key)'
      BY <1>1, <1>12, <2>1 DEF Chained, KeysDiffer
    <2>14. \A u \in Thread : pc'[u] # "link"
      <3>1. \A u \in Thread \ {t} : pc[u] # "link"
        BY <1>1, <1>13, MeetsNobody
      <3> QED
        BY <1>1, <3>1
    <2> QED
      BY <2>12, <2>13, <2>14 DEF Chained, LinkIsReady
  <1> QED
    BY <1>11, <1>13 DEF TInv

LEMMA InitTables == Init => TInv
  <1> SUFFICES ASSUME Init PROVE TInv
    OBVIOUS
  <1>1. /\ chain = [p \in Place |-> <<>>] /\ count = [t \in Table |-> 0]
        /\ live = {} /\ active = [o \in Object |-> FALSE] /\ next = [t \in Thread |-> <<>>]
        /\ \A t \in Thread : pc[t] = "idle"
        /\ raced = FALSE
    BY DEF Init, NoLinks, NoCount, Place, Slot
  <1>2. <<>> \in Seq(Object)
    OBVIOUS
  <1>3. TableTypes /\ SubjectsLive
    <2>1. chain \in [Place -> Seq(Object)]
      BY <1>1, <1>2
    <2>2. next \in [Thread -> Seq(Object)]
      BY <1>1, <1>2
    <2>3. raced \in BOOLEAN
      BY <1>1, Zenon
    <2>4. count \in [Table -> Int]
      <3>1. count = [t \in Table |-> 0]
        BY <1>1
      <3> QED
        BY <3>1
    <2>5. active \in [Object -> BOOLEAN]
      <3>1. active = [o \in Object |-> FALSE]
        BY <1>1
      <3> QED
        BY <3>1
    <2> QED
      BY <1>1, <2>1, <2>2, <2>3, <2>4, <2>5 DEF TableTypes, SubjectsLive
  <1>4. Linked = {}
    BY <1>1 DEF Linked
  <1>5. Rows(chain, Linked, key)
    <2>1. ToSet(<<>>) = {} /\ Len(<<>>) = 0
      BY <1>2 DEF ToSet
    <2>2. \A p \in Place : chain[p] = <<>>
      BY <1>1
    <2> QED
      BY <1>4, <2>1, <2>2 DEF Rows
  <1>6. Counted(chain, count)
    <2>1. ASSUME NEW t \in Table PROVE count[t] = SumFunction(Lengths(chain, t))
      <3>1. \A b \in Slot : Len(chain[<<t, b>>]) = 0
        BY <1>1 DEF Place
      <3>2. Lengths(chain, t) = [b \in Slot |-> 0]
        BY <3>1 DEF Lengths
      <3>3. PICK f : f = [b \in Slot |-> 0]
        OBVIOUS
      <3>4. DOMAIN f = Slot /\ \A b \in Slot : f[b] = 0
        BY <3>3
      <3>5. IsFiniteSet(Slot)
        BY FS_Interval, RegistryAssumption DEF Slot
      <3>6. SumFunctionOnSet(f, Slot) = 0
        BY <3>4, <3>5, SumOfZeros
      <3> QED
        BY <1>1, <3>2, <3>3, <3>4, <3>6 DEF SumFunction
    <2> QED
      BY <2>1 DEF Counted
  <1>7. KeysDiffer(Linked, key) /\ \A t \in Thread : LinkIsReady(t)
    BY <1>1, <1>4 DEF KeysDiffer, LinkIsReady
  <1> QED
    BY <1>1, <1>3, <1>5, <1>6, <1>7 DEF TInv, Chained

LEMMA NextTables == IInv /\ TInv /\ [Next]_vars => TInv'
  <1> SUFFICES ASSUME IInv, TInv, [Next]_vars PROVE TInv'
    OBVIOUS
  <1>1. ASSUME UNCHANGED <<objects, threads, raced>> PROVE TInv'
    <2>1. UNCHANGED <<chain, count, live, key, active, pc, subject, next, raced>>
      BY <1>1 DEF objects, threads
    <2>2. TableTypes' /\ SubjectsLive'
      BY <2>1 DEF TInv, TableTypes, SubjectsLive
    <2>3. Linked' = Linked
      BY <2>1 DEF Linked, Marked, Busy
    <2>4. Chained => Chained'
      BY <2>1, <2>3, ChainsStay
    <2> QED
      BY <2>1, <2>2, <2>4 DEF TInv
  <1>2. CASE UNCHANGED vars
    BY <1>1, <1>2 DEF vars
  <1>3. ASSUME NEW o \in Object, Construct(o) PROVE TInv'
    BY <1>3, ConstructTables
  <1>4. ASSUME NEW h \in Handle, Resolve(h) \/ \E o \in Object : Refer(h, o) PROVE TInv'
    BY <1>1, <1>4 DEF Resolve, Refer
  <1>5. ASSUME NEW t \in Thread, Registration(t) PROVE TInv'
    <2>1. CASE Acquire(t) \/ ReadCounter(t) \/ WriteCounter(t) \/ Release(t)
      <3>1. UNCHANGED <<chain, count, live, key, active, subject, next, raced>>
        BY <2>1 DEF Acquire, ReadCounter, WriteCounter, Release, objects
      <3>2. /\ pc[t] \in {"acquire", "read", "write", "release"}
            /\ \E step \in {"read", "write", "release", "key"} : pc' = [pc EXCEPT ![t] = step]
        BY <2>1 DEF Acquire, ReadCounter, WriteCounter, Release
      <3> QED
        BY <3>1, <3>2, DrawTables
    <2>2. CASE WriteKey(t) \/ Link(t) \/ Mark(t)
      BY <2>2, WriteKeyTables, LinkTables, MarkTables
    <2> QED
      BY <1>5, <2>1, <2>2 DEF Registration
  <1>6. ASSUME NEW t \in Thread, Free(t) PROVE TInv'
    BY <1>6, FreeTables
  <1>7. ASSUME NEW t \in Thread, NEW o \in Object, Deregister(t, o) PROVE TInv'
    BY <1>7, DeregisterTables
  <1>8. ASSUME NEW t \in Thread, NEW o \in Object, Reinsert(t, o) PROVE TInv'
    BY <1>8, ReinsertTables
  <1>9. ASSUME NEW t \in Thread, NEW o \in Object,
               NEW k \in ExplicitKeys \cup {DefaultKey}, Register(t, o, k)
        PROVE  TInv'
    BY <1>9, RegisterTables
  <1> QED
    BY <1>2, <1>3, <1>4, <1>5, <1>6, <1>7, <1>8, <1>9 DEF Next

LEMMA TablesFollow == IInv /\ TInv => TablesMatchObjects
  <1> SUFFICES ASSUME IInv, TInv, ~raced
               PROVE  /\ \A o \in Registered : Lookup(key[o]) = o
                      /\ \A p \in DOMAIN chain :
                            /\ IsInjective(chain[p])
                            /\ \A o \in ToSet(chain[p]) : o \in live /\ Bucket(key[o]) = p
                      /\ \A t \in Table :
                            count[t] = SumFunction([b \in 0 .. Buckets - 1 |-> Len(chain[<<t, b>>])])
    BY Zenon DEF TablesMatchObjects, RegisteredAreFound, LinksAreCurrent
  <1>1. TableTypes /\ Chained /\ key \in [Object -> Key] /\ Linked \subseteq Object
    BY LinkedAreObjects DEF TInv, IInv, Typed
  <1>2. ASSUME NEW o \in Registered PROVE Lookup(key[o]) = o
    <2>1. o \in Linked
      BY DEF Registered, Linked
    <2>2. key[o] \in Key
      BY <1>1, <2>1
    <2> QED
      BY <1>1, <2>1, <2>2, LookupFinds DEF Chained
  <1>3. ASSUME NEW p \in DOMAIN chain
        PROVE  /\ IsInjective(chain[p])
               /\ \A o \in ToSet(chain[p]) : o \in live /\ Bucket(key[o]) = p
    <2>1. p \in Place /\ chain[p] \in Seq(Object)
      BY <1>1 DEF TableTypes
    <2>2. /\ \A i, j \in 1 .. Len(chain[p]) : chain[p][i] = chain[p][j] => i = j
          /\ ToSet(chain[p]) = {o \in Linked : Bucket(key[o]) = p}
      BY <1>1, <2>1 DEF Chained, Rows
    <2>3. IsInjective(chain[p])
      BY <2>1, <2>2 DEF IsInjective
    <2> QED
      BY <2>2, <2>3 DEF Linked
  <1>4. ASSUME NEW t \in Table
        PROVE  count[t] = SumFunction([b \in 0 .. Buckets - 1 |-> Len(chain[<<t, b>>])])
    BY <1>1 DEF Chained, Counted, Lengths, Slot
  <1> QED
    BY <1>2, <1>3, <1>4

THEOREM TablesInvariance == Spec => [](IInv /\ TInv)
  <1>1. Init => TInv
    BY InitTables
  <1>2. IInv /\ TInv /\ [Next]_vars => TInv'
    BY NextTables
  <1> QED
    BY <1>1, <1>2, Invariance, PTL DEF Spec

\* Where the threads do not meet at the tables, each registered object is found under its
\* key, and every link is that of an allocated object, in the bucket of its key, counted.
THEOREM TablesHold == Spec => []TablesMatchObjects
  BY TablesInvariance, TablesFollow, PTL

-------------------------------------------------------------------------------
(* The handles. *)

\* What a handle names is the object it was made for and no other.
HandleTypes ==
    /\ cache \in [Handle -> Object \cup {Null}] /\ name \in [Handle -> Key]
    /\ target \in [Handle -> Object \cup {Null}] /\ outdated \in [Handle -> BOOLEAN]

HandleIsTrue(h) ==
    /\ target[h] # Null =>
          /\ target[h] \in live
          /\ ~Freeing(target[h]) => active[target[h]] /\ key[target[h]] = name[h]
    /\ Automatic(name[h]) =>
          /\ name[h][2] \in Issued
          /\ \A t \in Thread : InHand(t) => edx[t] # name[h][2]
          /\ \A o \in Object : Holds(o) /\ key[o][2] = name[h][2] => o = target[h]
    /\ ~raced /\ Automatic(name[h]) /\ ~outdated[h] => cache[h] \in {Null, target[h]}

HInv == HandleTypes /\ \A h \in Handle : HandleIsTrue(h)

LEMMA HandleLooksUp ==
    ASSUME IInv, TInv, HInv, ~raced, NEW h \in Handle, Automatic(name[h])
    PROVE  Lookup(name[h]) = IF target[h] \in Registered THEN target[h] ELSE Null
  <1>1. TableTypes /\ Chained /\ key \in [Object -> Key] /\ Linked \subseteq Object
    BY LinkedAreObjects DEF TInv, IInv, Typed
  <1>2. name[h] \in Key /\ target[h] \in Object \cup {Null} /\ HandleIsTrue(h)
    BY DEF HInv, HandleTypes
  <1>3. /\ \A o \in Linked : key[o] = name[h] => Lookup(name[h]) = o
        /\ (\A o \in Linked : key[o] # name[h]) => Lookup(name[h]) = Null
    BY <1>1, <1>2, LookupFinds DEF Chained
  <1>4. ASSUME target[h] \in Registered PROVE Lookup(name[h]) = target[h]
    <2>1. target[h] \in Linked /\ target[h] \in Object
      BY <1>1, <1>4 DEF Registered, Linked
    <2>2. key[target[h]] = name[h]
      BY <1>2, <2>1, LinkedAreObjects, RegistryAssumption DEF HandleIsTrue
    <2> QED
      BY <1>3, <2>1, <2>2
  <1>5. ASSUME NEW o \in Linked, key[o] = name[h] PROVE target[h] \in Registered
    <2>1. o \in Object /\ Holds(o)
      BY <1>5, LinkedAreObjects DEF Holds
    <2>2. o = target[h]
      BY <1>2, <1>5, <2>1 DEF HandleIsTrue
    <2>3. active[o]
      BY <1>2, <2>1, <2>2, LinkedAreObjects, RegistryAssumption DEF HandleIsTrue
    <2>4. ~Marked(o)
      BY <2>3 DEF Marked, TInv, SubjectsLive
    <2> QED
      BY <2>2, <2>4 DEF Linked, Registered
  <1> QED
    BY <1>3, <1>4, <1>5

LEMMA HandlesFollow == IInv /\ TInv /\ HInv => HandlesAreGood
  BY HandleLooksUp DEF HandlesAreGood, HandlesFindTheirObject, CachedPointersAreGood, HInv,
     HandleIsTrue

\* Handles keep what is true of them while objects and ids go their way.
LEMMA HandlesStay ==
    ASSUME IInv, HInv, UNCHANGED handles, ~raced' => ~raced,
           \A o \in live : /\ o \in live'
                           /\ ~Freeing(o)' => /\ ~Freeing(o)
                                              /\ active[o] => active'[o] /\ key'[o] = key[o],
           Issued \subseteq Issued',
           \A t \in Thread : InHand(t)' => \/ InHand(t) /\ edx'[t] = edx[t]
                                           \/ edx'[t] \notin Issued,
           \A o \in Object : Holds(o)' =>
              \/ Holds(o) /\ key'[o] = key[o]
              \/ \E t \in Thread : InHand(t) /\ edx[t] = key'[o][2]
    PROVE  HInv'
  <1>1. UNCHANGED <<cache, name, target, outdated>>
    BY DEF handles
  <1>2. HandleTypes'
    BY <1>1 DEF HInv, HandleTypes
  <1>3. ASSUME NEW h \in Handle PROVE HandleIsTrue(h)'
    <2>1. HandleIsTrue(h)
      BY DEF HInv
    <2>2. PICK o : o = target[h]
      OBVIOUS
    <2>3. o # Null =>
             /\ o \in live'
             /\ ~Freeing(o)' => active'[o] /\ key'[o] = name[h]
      BY <2>1, <2>2 DEF HandleIsTrue
    <2>4. ASSUME Automatic(name[h])
          PROVE  /\ name[h][2] \in Issued'
                 /\ \A t \in Thread : InHand(t)' => edx'[t] # name[h][2]
                 /\ \A q \in Object : Holds(q)' /\ key'[q][2] = name[h][2] => q = target[h]
      BY <2>1, <2>4 DEF HandleIsTrue
    <2>5. target'[h] = o
      BY <1>1, <2>2
    <2>6. target'[h] # Null =>
             /\ target'[h] \in live'
             /\ ~Freeing(target[h])' => active'[target'[h]] /\ key'[target'[h]] = name[h]
      BY <2>3, <2>5 DEF Freeing
    <2> QED
      BY <1>1, <2>1, <2>4, <2>6 DEF HandleIsTrue
  <1> QED
    BY <1>2, <1>3 DEF HInv

LEMMA InitHandles == Init => HInv
  <1> SUFFICES ASSUME Init PROVE HInv
    OBVIOUS
  <1>1. /\ cache = [h \in Handle |-> Null] /\ name = [h \in Handle |-> DefaultKey]
        /\ target = [h \in Handle |-> Null]
    BY DEF Init
  <1>2. outdated \in [Handle -> BOOLEAN]
    <2>1. outdated = [h \in Handle |-> FALSE]
      BY DEF Init
    <2> QED
      BY <2>1
  <1>3. DefaultKey \in Key /\ ~Automatic(DefaultKey)
    BY RegistryAssumption
  <1> QED
    BY <1>1, <1>2, <1>3 DEF HInv, HandleTypes, HandleIsTrue

\* Steps that move no id and no object.
LEMMA HandlesElsewhere ==
    ASSUME IInv, HInv, ~raced' => ~raced,
           UNCHANGED <<handles, live, key, active, pc, subject, edx, seed, draws>>
    PROVE  HInv'
  <1>1. Issued' = Issued
    BY DEF Issued, Id
  <1>2. \A o : Freeing(o)' <=> Freeing(o)
    BY DEF Freeing
  <1>3. \A o \in Object : Holds(o)' => Holds(o) /\ key'[o] = key[o]
    BY <1>2 DEF Holds
  <1>4. \A t \in Thread : InHand(t)' => InHand(t) /\ edx'[t] = edx[t]
    BY DEF InHand
  <1> QED
    BY <1>1, <1>2, <1>3, <1>4, HandlesStay

\* A thread goes on with its registration; it may draw an id.
LEMMA HandlesMoveOn ==
    ASSUME IInv, HInv, NEW t \in Thread, pc[t] \notin {"idle", "free"},
           NEW step \in {"read", "write", "release", "key", "link", "mark"},
           pc' = [pc EXCEPT ![t] = step],
           UNCHANGED <<handles, live, key, active, subject, seed, raced>>,
           draws' \in {draws, draws + 1},
           \A u \in Thread \ {t} : edx'[u] = edx[u],
           step \in {"release", "key"} => \/ InHand(t) /\ edx'[t] = edx[t]
                                          \/ edx'[t] \notin Issued
    PROVE  HInv'
  <1> USE DEF IInv
  <1>1. Issued \subseteq Issued'
    <2>1. \A n : Id(n)' = Id(n)
      BY DEF Id
    <2> QED
      BY <2>1, RegistryAssumption DEF Issued, Typed
  <1>2. \A u \in Thread : InHand(u)' => \/ InHand(u) /\ edx'[u] = edx[u]
                                        \/ edx'[u] \notin Issued
    BY DEF InHand, Typed
  <1>3. \A o : Freeing(o)' <=> Freeing(o)
    BY DEF Freeing, Typed
  <1>4. \A o \in Object : Holds(o)' => Holds(o) /\ key'[o] = key[o]
    BY <1>3 DEF Holds
  <1> QED
    BY <1>1, <1>2, <1>3, <1>4, HandlesStay

LEMMA DrawHandles ==
    ASSUME IInv, HInv, NEW t \in Thread,
           Acquire(t) \/ ReadCounter(t) \/ WriteCounter(t) \/ Release(t)
    PROVE  HInv'
  <1>1. UNCHANGED <<handles, live, key, active, subject, seed, raced>>
    BY DEF Acquire, ReadCounter, WriteCounter, Release, objects, drawing
  <1>2. edx \in [Thread -> Word]
    BY DEF IInv, Typed
  <1>3. CASE Acquire(t)
    <2>1. /\ pc[t] = "acquire" /\ pc' = [pc EXCEPT ![t] = "read"]
          /\ UNCHANGED <<edx, draws>>
      BY <1>3 DEF Acquire
    <2> QED
      BY <1>1, <2>1, HandlesMoveOn
  <1>4. CASE ReadCounter(t)
    <2>1. /\ pc[t] = "read" /\ pc' = [pc EXCEPT ![t] = "write"] /\ draws' = draws
          /\ \A u \in Thread \ {t} : edx'[u] = edx[u]
      BY <1>2, <1>4 DEF ReadCounter, drawing
    <2> QED
      BY <1>1, <2>1, HandlesMoveOn
  <1>5. CASE WriteCounter(t)
    <2>1. /\ pc[t] = "write" /\ pc' = [pc EXCEPT ![t] = "release"]
          /\ draws' = draws + 1 /\ edx' = edx
      BY <1>5 DEF WriteCounter
    <2>2. draws < MaxDraws /\ edx[t] = Id(draws + 1)
      BY <2>1 DEF IInv, CounterIsLastId
    <2>3. edx'[t] \notin Issued
      BY <2>1, <2>2, NextIdIsNew DEF IInv
    <2> QED
      BY <1>1, <2>1, <2>3, HandlesMoveOn
  <1>6. CASE Release(t)
    <2>1. /\ pc[t] = "release" /\ pc' = [pc EXCEPT ![t] = "key"]
          /\ UNCHANGED <<edx, draws>>
      BY <1>6 DEF Release
    <2> QED
      BY <1>1, <2>1, HandlesMoveOn DEF InHand
  <1> QED
    BY <1>3, <1>4, <1>5, <1>6

LEMMA ConstructHandles ==
    ASSUME IInv, TInv, HInv, NEW o \in Object, Construct(o)
    PROVE  HInv'
  <1>1. /\ o \notin live /\ live' = live \cup {o}
        /\ key' = [key EXCEPT ![o] = DefaultKey]
        /\ active' = [active EXCEPT ![o] = FALSE]
        /\ UNCHANGED <<handles, pc, subject, edx, seed, draws, raced>>
    BY DEF Construct, threads, drawing
  <1>2. Issued' = Issued
    BY <1>1 DEF Issued, Id
  <1>3. \A q : Freeing(q)' <=> Freeing(q)
    BY <1>1 DEF Freeing
  <1>4. \A q \in Object : Holds(q)' => Holds(q) /\ key'[q] = key[q]
    BY <1>1, <1>3, RegistryAssumption DEF Holds, IInv, Typed
  <1>5. \A t \in Thread : InHand(t)' => InHand(t) /\ edx'[t] = edx[t]
    BY <1>1 DEF InHand
  <1>6. \A q \in live : q \in live' /\ active'[q] = active[q] /\ key'[q] = key[q]
    BY <1>1 DEF IInv, Typed, TInv, TableTypes
  <1> QED
    BY <1>1, <1>2, <1>3, <1>4, <1>5, <1>6, HandlesStay

LEMMA RegisterHandles ==
    ASSUME IInv, TInv, HInv, NEW t \in Thread, NEW o \in Object,
           NEW k \in ExplicitKeys \cup {DefaultKey}, Register(t, o, k)
    PROVE  HInv'
  <1> USE DEF IInv
  <1>1. /\ pc[t] = "idle" /\ ~active[o]
        /\ subject' = [subject EXCEPT ![t] = o]
        /\ UNCHANGED <<handles, live, active, edx, seed, draws>>
    BY DEF Register, drawing
  <1>2. k \in Key /\ ~Automatic(k)
    BY RegistryAssumption
  <1>3. PICK step \in {"acquire", "link"} :
           /\ pc' = [pc EXCEPT ![t] = step]
           /\ key' \in {key, [key EXCEPT ![o] = k]}
    BY DEF Register
  <1>4. ~raced' => ~raced
    BY DEF Register, Meets
  <1>5. Issued' = Issued
    BY <1>1 DEF Issued, Id
  <1>6. \A q : Freeing(q)' <=> Freeing(q)
    BY <1>1, <1>3 DEF Freeing, Typed
  <1>7. \A q \in Object : Holds(q)' => Holds(q) /\ key'[q] = key[q]
    BY <1>2, <1>3, <1>6 DEF Holds, Typed
  <1>8. \A u \in Thread : InHand(u)' => InHand(u) /\ edx'[u] = edx[u]
    BY <1>1, <1>3 DEF InHand, Typed
  <1>9. \A q \in live : active[q] => key'[q] = key[q]
    BY <1>1, <1>3 DEF Typed
  <1> QED
    BY <1>1, <1>4, <1>5, <1>6, <1>7, <1>8, <1>9, HandlesStay

\* The id goes to an object that no handle names yet.
LEMMA WriteKeyHandles ==
    ASSUME IInv, TInv, HInv, NEW t \in Thread, WriteKey(t)
    PROVE  HInv'
  <1> USE DEF IInv
  <1> DEFINE s == subject[t]
  <1>1. /\ pc[t] = "key" /\ s \in Object
        /\ key' = [key EXCEPT ![s] = <<AutoKind, edx[t]>>]
        /\ edx' = [edx EXCEPT ![t] = 0]
        /\ pc' = [pc EXCEPT ![t] = "link"]
        /\ UNCHANGED <<handles, live, active, subject, seed, draws>>
    BY DEF WriteKey, drawing, SubjectsDiffer
  <1>2. ~raced' => ~raced
    BY DEF WriteKey, Meets
  <1>3. ~active[s]
    BY <1>1 DEF TInv, SubjectsLive
  <1>4. Issued' = Issued
    BY <1>1 DEF Issued, Id
  <1>5. \A q : Freeing(q)' <=> Freeing(q)
    BY <1>1 DEF Freeing, Typed
  <1>6. \A u \in Thread : InHand(u)' => InHand(u) /\ edx'[u] = edx[u]
    BY <1>1 DEF InHand, Typed
  <1>7. InHand(t) /\ key'[s][2] = edx[t]
    BY <1>1 DEF InHand, Typed
  <1>8. \A q \in Object \ {s} : (Holds(q)' => Holds(q)) /\ key'[q] = key[q]
    BY <1>1, <1>5 DEF Holds, Typed
  <1>9. \A q \in live : active[q] => key'[q] = key[q]
    BY <1>1, <1>3
  <1>10. \A q \in Object : Holds(q)' => \/ Holds(q) /\ key'[q] = key[q]
                                        \/ \E u \in Thread : InHand(u) /\ edx[u] = key'[q][2]
    BY <1>7, <1>8
  <1> QED
    BY <1>1, <1>2, <1>4, <1>5, <1>6, <1>9, <1>10, HandlesStay

LEMMA LinkHandles ==
    ASSUME IInv, HInv, NEW t \in Thread, Link(t)
    PROVE  HInv'
  <1>1. /\ pc[t] = "link" /\ pc' = [pc EXCEPT ![t] = "mark"]
        /\ UNCHANGED <<handles, live, key, active, subject, edx, seed, draws, raced>>
    BY DEF Link, drawing
  <1> QED
    BY <1>1, HandlesMoveOn

LEMMA MarkHandles ==
    ASSUME IInv, TInv, HInv, NEW t \in Thread, Mark(t)
    PROVE  HInv'
  <1> USE DEF IInv
  <1>1. /\ pc[t] = "mark"
        /\ active' = [active EXCEPT ![subject[t]] = TRUE]
        /\ subject' = [subject EXCEPT ![t] = Null]
        /\ pc' = [pc EXCEPT ![t] = "idle"]
        /\ UNCHANGED <<handles, live, key, edx, seed, draws, raced>>
    BY DEF Mark, drawing
  <1>2. Issued' = Issued
    BY <1>1 DEF Issued, Id
  <1>3. \A q : Freeing(q)' <=> Freeing(q)
    BY <1>1 DEF Freeing, Typed
  <1>4. \A q \in Object : Holds(q)' => Holds(q) /\ key'[q] = key[q]
    BY <1>1, <1>3 DEF Holds
  <1>5. \A u \in Thread : InHand(u)' => InHand(u) /\ edx'[u] = edx[u]
    BY <1>1 DEF InHand, Typed
  <1>6. \A q \in live : active[q] => active'[q]
    BY <1>1 DEF TInv, TableTypes
  <1> QED
    BY <1>1, <1>2, <1>3, <1>4, <1>5, <1>6, HandlesStay

LEMMA DeregisterHandles ==
    ASSUME IInv, HInv, NEW t \in Thread, NEW o \in Object, Deregister(t, o)
    PROVE  HInv'
  <1> USE DEF IInv
  <1>1. /\ pc[t] = "idle"
        /\ subject' = [subject EXCEPT ![t] = o]
        /\ pc' = [pc EXCEPT ![t] = "free"]
        /\ key' \in {key, [key EXCEPT ![o] = <<key[o][2], Tomb>>]}
        /\ UNCHANGED <<handles, live, active, edx, seed, draws>>
    BY DEF Deregister, drawing
  <1>2. ~raced' => ~raced
    BY DEF Deregister, Meets
  <1>3. Issued' = Issued
    BY <1>1 DEF Issued, Id
  <1>4. Freeing(o)' /\ \A q : Freeing(q) => Freeing(q)'
    BY <1>1 DEF Freeing, Typed
  <1>5. \A q \in Object \ {o} : key'[q] = key[q]
    BY <1>1 DEF Typed
  <1>6. \A q \in Object : Holds(q)' => Holds(q) /\ key'[q] = key[q]
    BY <1>4, <1>5 DEF Holds
  <1>7. \A u \in Thread : InHand(u)' => InHand(u) /\ edx'[u] = edx[u]
    BY <1>1 DEF InHand, Typed
  <1>8. \A q \in live : ~Freeing(q)' => ~Freeing(q) /\ key'[q] = key[q]
    BY <1>4, <1>5
  <1> QED
    BY <1>1, <1>2, <1>3, <1>6, <1>7, <1>8, HandlesStay

\* Handles of the object that goes away name nothing any more, and their pointers are
\* good for nothing.
LEMMA FreeHandles ==
    ASSUME IInv, TInv, HInv, NEW t \in Thread, Free(t)
    PROVE  HInv'
  <1> USE DEF IInv
  <1>1. PICK s \in Object : s = subject[t] /\ pc[t] = "free"
    BY DEF Free, SubjectsDiffer
  <1>2. /\ key' = [key EXCEPT ![s] = DefaultKey]
        /\ active' = [active EXCEPT ![s] = FALSE]
        /\ live' = live \ {s}
        /\ target' = [h \in Handle |-> IF target[h] = s THEN Null ELSE target[h]]
        /\ outdated' = [h \in Handle |-> outdated[h] \/ cache[h] = s]
        /\ subject' = [subject EXCEPT ![t] = Null]
        /\ pc' = [pc EXCEPT ![t] = "idle"]
        /\ UNCHANGED <<cache, name, edx, seed, draws, raced>>
    BY <1>1 DEF Free, drawing
  <1>3. HandleTypes'
    <2>1. outdated' \in [Handle -> BOOLEAN]
      BY <1>2
    <2> QED
      BY <1>2, <2>1 DEF HInv, HandleTypes
  <1>4. Issued' = Issued
    BY <1>2 DEF Issued, Id
  <1>5. \A q : q # s => (Freeing(q)' <=> Freeing(q))
    BY <1>1, <1>2 DEF Freeing, Typed
  <1>6. \A q \in Object : Holds(q)' => q # s /\ Holds(q) /\ key'[q] = key[q]
    BY <1>1, <1>2, <1>5, RegistryAssumption DEF Holds, Typed
  <1>7. \A u \in Thread : InHand(u)' => InHand(u) /\ edx'[u] = edx[u]
    BY <1>2 DEF InHand, Typed
  <1>8. ASSUME NEW h \in Handle PROVE HandleIsTrue(h)'
    <2>1. HandleIsTrue(h)
      BY DEF HInv
    <2>2. PICK o : o = target[h]
      OBVIOUS
    <2>3. target'[h] = IF o = s THEN Null ELSE o
      BY <1>2, <2>2
    <2>4. o # Null /\ o # s => /\ o \in live'
                               /\ ~Freeing(o)' => active'[o] /\ key'[o] = name[h]
      BY <1>2, <1>5, <2>1, <2>2 DEF HandleIsTrue
    <2>5. ASSUME Automatic(name[h])
          PROVE  /\ name[h][2] \in Issued'
                 /\ \A u \in Thread : InHand(u)' => edx'[u] # name[h][2]
                 /\ \A q \in Object : Holds(q)' /\ key'[q][2] = name[h][2] => q = o /\ q # s
      BY <1>4, <1>6, <1>7, <2>1, <2>2, <2>5 DEF HandleIsTrue
    <2>6. ASSUME ~raced, Automatic(name[h]), ~outdated'[h]
          PROVE  cache[h] \in {Null, target'[h]}
      <3>1. ~outdated[h] /\ cache[h] # s
        BY <1>2, <2>6
      <3> QED
        BY <2>1, <2>2, <2>3, <2>6, <3>1 DEF HandleIsTrue
    <2>7. target'[h] # Null =>
             /\ target'[h] \in live'
             /\ ~Freeing(target[h])' => active'[target'[h]] /\ key'[target'[h]] = name[h]
      BY <2>3, <2>4 DEF Freeing
    <2>8. Automatic(name[h]) =>
             \A q \in Object : Holds(q)' /\ key'[q][2] = name[h][2] => q = target'[h]
      BY <2>3, <2>5
    <2> QED
      BY <1>2, <2>5, <2>6, <2>7, <2>8 DEF HandleIsTrue
  <1> QED
    BY <1>3, <1>8 DEF HInv

LEMMA ReferHandles ==
    ASSUME IInv, TInv, HInv, NEW h \in Handle, NEW o \in Object, Refer(h, o)
    PROVE  HInv'
  <1> USE DEF IInv
  <1>1. /\ o \in live /\ active[o] /\ ~Busy(o)
        /\ cache' = [cache EXCEPT ![h] = o] /\ name' = [name EXCEPT ![h] = key[o]]
        /\ target' = [target EXCEPT ![h] = o]
        /\ outdated' = [outdated EXCEPT ![h] = FALSE]
        /\ UNCHANGED <<live, key, active, pc, subject, edx, seed, draws, raced>>
    BY DEF Refer, Registered, objects, threads, drawing
  <1>2. HandleTypes /\ key[o] \in Key
    BY DEF HInv, Typed
  <1>3. HandleTypes'
    BY <1>1, <1>2 DEF HandleTypes
  <1>4. ~Freeing(o)
    BY <1>1 DEF Busy, Freeing
  <1>5. Automatic(key[o]) =>
           /\ key[o][2] \in Issued
           /\ \A t \in Thread : InHand(t) => edx[t] # key[o][2]
           /\ \A q \in Object : Holds(q) /\ key[q][2] = key[o][2] => q = o
    BY <1>4 DEF Holds, IdsAreSpread
  <1>6. Issued' = Issued
    BY <1>1 DEF Issued, Id
  <1>7. \A q : (Freeing(q)' <=> Freeing(q)) /\ (Holds(q)' <=> Holds(q))
    BY <1>1 DEF Freeing, Holds
  <1>8. \A t \in Thread : InHand(t)' <=> InHand(t)
    BY <1>1 DEF InHand
  <1>9. ASSUME NEW g \in Handle PROVE HandleIsTrue(g)'
    <2>1. PICK x : x = target'[g]
      OBVIOUS
    <2>2. Freeing(target[g])' <=> Freeing(x)
      BY <1>7, <2>1 DEF Freeing
    <2>3. CASE g = h
      <3>1. x = o /\ name'[g] = key[o] /\ cache'[g] = o
        BY <1>1, <1>2, <2>1, <2>3 DEF HandleTypes
      <3> QED
        BY <1>1, <1>4, <1>5, <1>6, <1>7, <1>8, <2>1, <2>2, <3>1 DEF HandleIsTrue
    <2>4. CASE g # h
      <3>1. /\ x = target[g] /\ name'[g] = name[g] /\ cache'[g] = cache[g]
            /\ outdated'[g] = outdated[g]
        BY <1>1, <1>2, <2>1, <2>4 DEF HandleTypes
      <3>2. HandleIsTrue(g)
        BY DEF HInv
      <3>3. x # Null => /\ x \in live
                        /\ ~Freeing(x) => active[x] /\ key[x] = name[g]
        BY <3>1, <3>2 DEF HandleIsTrue
      <3>4. Automatic(name[g]) =>
               /\ name[g][2] \in Issued
               /\ \A t \in Thread : InHand(t) => edx[t] # name[g][2]
               /\ \A q \in Object : Holds(q) /\ key[q][2] = name[g][2] => q = x
        BY <3>1, <3>2 DEF HandleIsTrue
      <3>5. ~raced /\ Automatic(name[g]) /\ ~outdated[g] => cache[g] \in {Null, x}
        BY <3>1, <3>2 DEF HandleIsTrue
      <3>6. /\ live' = live /\ active' = active /\ key' = key /\ edx' = edx /\ raced' = raced
            /\ \A q : (Holds(q)' <=> Holds(q))
        BY <1>1, <1>7
      <3>7. target'[g] # Null =>
               /\ target'[g] \in live'
               /\ ~Freeing(target[g])' => active'[target'[g]] /\ key'[target'[g]] = name'[g]
        BY <2>1, <2>2, <3>1, <3>3, <3>6
      <3>8. Automatic(name'[g]) =>
               /\ name'[g][2] \in Issued'
               /\ \A t \in Thread : InHand(t)' => edx'[t] # name'[g][2]
               /\ \A q \in Object : Holds(q)' /\ key'[q][2] = name'[g][2] => q = target'[g]
        BY <1>6, <1>8, <2>1, <3>1, <3>4, <3>6
      <3> QED
        BY <2>1, <3>1, <3>5, <3>6, <3>7, <3>8 DEF HandleIsTrue
    <2> QED
      BY <2>3, <2>4
  <1> QED
    BY <1>3, <1>9 DEF HInv

LEMMA ResolveHandles ==
    ASSUME IInv, TInv, HInv, NEW h \in Handle, Resolve(h)
    PROVE  HInv'
  <1>1. PICK found \in Found(name[h]) : cache' = [cache EXCEPT ![h] = found]
    BY DEF Resolve
  <1>2. /\ outdated' = [outdated EXCEPT ![h] = FALSE]
        /\ UNCHANGED <<name, target, live, key, active, pc, subject, edx, seed, draws, raced>>
    BY DEF Resolve, objects, threads, drawing
  <1>3. HandleTypes /\ name[h] \in Key
    BY DEF HInv, HandleTypes
  <1>4. found \in Object \cup {Null}
    <2> DEFINE c == chain[Bucket(name[h])]
               i == FirstMatch(name[h])
    <2>1. c \in Seq(Object)
      BY <1>3, BucketExists DEF TInv, TableTypes
    <2>2. i = 0 \/ i \in 1 .. Len(c)
      BY <1>3, WalkFinds DEF TInv
    <2>3. Lookup(name[h]) \in Object \cup {Null}
      <3>1. Lookup(name[h]) = IF i = 0 THEN Null ELSE c[i]
        BY DEF Lookup
      <3> HIDE DEF c, i
      <3> QED
        BY <2>1, <2>2, <3>1
    <2> QED
      BY <1>1, <2>3 DEF Found
  <1>5. HandleTypes'
    BY <1>1, <1>2, <1>3, <1>4 DEF HandleTypes
  <1>6. ~raced /\ Automatic(name[h]) => found \in {Null, target[h]}
    BY <1>1, HandleLooksUp DEF Found
  <1>7. Issued' = Issued
    BY <1>2 DEF Issued, Id
  <1>8. \A q : (Freeing(q)' <=> Freeing(q)) /\ (Holds(q)' <=> Holds(q))
    BY <1>2 DEF Freeing, Holds
  <1>9. \A t \in Thread : InHand(t)' <=> InHand(t)
    BY <1>2 DEF InHand
  <1>10. ASSUME NEW g \in Handle PROVE HandleIsTrue(g)'
    <2>1. HandleIsTrue(g)
      BY DEF HInv
    <2>2. Freeing(target[g])' <=> Freeing(target[g])
      BY <1>2 DEF Freeing
    <2>3. ~raced /\ Automatic(name[g]) /\ ~outdated'[g] => cache'[g] \in {Null, target[g]}
      BY <1>1, <1>2, <1>3, <1>6, <2>1 DEF HandleIsTrue, HandleTypes
    <2> QED
      BY <1>2, <1>7, <1>8, <1>9, <2>1, <2>2, <2>3 DEF HandleIsTrue
  <1> QED
    BY <1>5, <1>10 DEF HInv

LEMMA NextHandles == IInv /\ TInv /\ HInv /\ [Next]_vars => HInv'
  <1> SUFFICES ASSUME IInv, TInv, HInv, [Next]_vars PROVE HInv'
    OBVIOUS
  <1>1. CASE UNCHANGED vars
    BY <1>1, HandlesElsewhere DEF vars, objects, threads, drawing
  <1>2. ASSUME NEW o \in Object, Construct(o) PROVE HInv'
    BY <1>2, ConstructHandles
  <1>3. ASSUME NEW h \in Handle, Resolve(h) \/ \E o \in Object : Refer(h, o) PROVE HInv'
    BY <1>3, ResolveHandles, ReferHandles
  <1>4. ASSUME NEW t \in Thread, Registration(t) PROVE HInv'
    BY <1>4, DrawHandles, WriteKeyHandles, LinkHandles, MarkHandles DEF Registration
  <1>5. ASSUME NEW t \in Thread, Free(t) PROVE HInv'
    BY <1>5, FreeHandles
  <1>6. ASSUME NEW t \in Thread, NEW o \in Object, Deregister(t, o) PROVE HInv'
    BY <1>6, DeregisterHandles
  <1>7. ASSUME NEW t \in Thread, NEW o \in Object, Reinsert(t, o) PROVE HInv'
    BY <1>7, HandlesElsewhere DEF Reinsert, Meets, threads, drawing
  <1>8. ASSUME NEW t \in Thread, NEW o \in Object,
               NEW k \in ExplicitKeys \cup {DefaultKey}, Register(t, o, k)
        PROVE  HInv'
    BY <1>8, RegisterHandles
  <1> QED
    BY <1>1, <1>2, <1>3, <1>4, <1>5, <1>6, <1>7, <1>8 DEF Next

THEOREM HandlesInvariance == Spec => [](IInv /\ TInv /\ HInv)
  <1>1. Init => HInv
    BY InitHandles
  <1>2. IInv /\ TInv /\ HInv /\ [Next]_vars => HInv'
    BY NextHandles
  <1> QED
    BY <1>1, <1>2, TablesInvariance, PTL DEF Spec

\* A handle on an automatic key leads to the object it was made for or nowhere, through
\* the tables and through the pointer it keeps, though the memory was used again.
THEOREM HandlesHold == Spec => []HandlesAreGood
  BY HandlesInvariance, HandlesFollow, PTL

LEMMA TypesFollow == IInv /\ TInv /\ HInv => TypeOK
  <1> SUFFICES ASSUME IInv, TInv, HInv PROVE TypeOK
    OBVIOUS
  <1>1. Typed /\ TableTypes /\ HandleTypes /\ live \subseteq Object
    BY DEF IInv, TInv, HInv
  <1>2. counter \in Word
    BY <1>1, IdsDiffer DEF IInv, CounterIsLastId, Typed
  <1> QED
    BY <1>1, <1>2, Zenon DEF TypeOK, Typed, TableTypes, HandleTypes, Place, Slot

\* The tables hold objects, the keys and the counter fit their words.
THEOREM TypeCorrect == Spec => []TypeOK
  BY HandlesInvariance, TypesFollow, PTL
===============================================================================
