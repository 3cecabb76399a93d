---------------------------- MODULE ObjectRegistry ----------------------------
(***************************************************************************)
(* The registry of game objects: two chained hash tables that map a key    *)
(* (kind, id) to an object, the counter automatic ids are drawn from, and  *)
(* the handles that name an object by its key.                             *)
(*                                                                         *)
(*   0x009C1390  registers an object under an explicit key, or under one   *)
(*               drawn from the counter;                                   *)
(*   0x009C1590  links an object at the head of its bucket;                *)
(*   0x009C1CB0  unlinks the first object of a bucket that has a key;      *)
(*   0x009C1650  takes an object that is destroyed out of the registry;    *)
(*   0x009C1D40  looks a key up, 0x00967F50 for a handle.                  *)
(*                                                                         *)
(* The drawing of an id is under a one-byte spin lock.  The linking is     *)
(* not: the lock is released before the object has its key.  So threads    *)
(* take the steps of a registration one at a time here, and raced records  *)
(* that two of them were at the tables at once.  What the chains hold is   *)
(* undefined from then on: a lookup may find anything (Found) and the      *)
(* model forgets them.  The ids stay defined.                              *)
(***************************************************************************)
EXTENDS Integers, Sequences, SequencesExt

CONSTANTS Thread,        \* the threads that register and destroy objects
          Object,        \* places an object may be allocated at
          Handle,        \* handles that other objects hold
          Null,          \* the null pointer
          Modulus,       \* of the machine word: 2^32
          Shift,         \* 2^16, the weight of the kind in the hash
          Buckets,       \* of either table
          Threshold,     \* the last kind of the first table: 0x1268
          Space,         \* the 16-bit offset of automatic kinds
          Tomb,          \* the id of an object taken out: 0xFFFE
          DefaultKey,    \* the global pair that asks for an automatic key
          ExplicitKeys,  \* keys that callers choose
          Seeds,         \* the counter may start at these: a bound on Word
          MaxDraws       \* bound on the automatic ids drawn

Word == 0 .. Modulus - 1
Key  == Word \X Word
AutoKind == Space + Threshold
Automatic(k) == k[1] = AutoKind

\* The registry does not test whether a drawn key is taken: it relies on callers
\* that keep their own keys out of the automatic kind, and on a counter that does
\* not come round.
ASSUME RegistryAssumption ==
    /\ Null \notin Object
    /\ Modulus \in Nat \ {0} /\ Shift \in Nat /\ Buckets \in Nat \ {0}
    /\ Threshold \in Word /\ Tomb \in Word
    /\ Space \in Nat /\ AutoKind \in Word
    /\ DefaultKey \in Key /\ ExplicitKeys \subseteq Key \ {DefaultKey}
    /\ \A k \in ExplicitKeys \cup {DefaultKey} : ~Automatic(k)
    /\ Seeds \subseteq Word
    /\ MaxDraws \in Nat /\ MaxDraws < Modulus

VARIABLES
    chain,    \* by table and bucket: the linked objects, head first
    count,    \* table + 0x00, by table
    live,     \* the objects that are allocated
    key,      \* object + 0x08 and + 0x0C
    active,   \* object + 0x10
    counter,  \* 0x01258A9C
    lock,     \* the byte 0x0131CA68: is it set?
    pc,       \* by thread: the step it is about to take
    subject,  \* by thread: the object it registers or destroys
    edx,      \* by thread: the id it has drawn or is about to
    next,     \* by thread: what follows the link it is about to publish
    cache,    \* handle + 0x00
    name,     \* handle + 0x04 and + 0x08
    target,   \* history: the object the handle was made for, while it exists
    outdated, \* history: what cache points at was freed since it was filled in
    seed,     \* history: the counter at the start
    draws,    \* history: how many ids were drawn
    raced     \* history: two threads were at the tables at once

objects  == <<chain, count, live, key, active>>
handles  == <<cache, name, target, outdated>>
threads  == <<pc, subject, edx, next>>
drawing  == <<counter, lock, seed, draws>>
vars == <<objects, handles, threads, drawing, raced>>

-------------------------------------------------------------------------------

Table == {"small", "large"}
TableOf(k) == IF k[1] <= Threshold THEN "small" ELSE "large"
Hash(k) == ((k[1] * Shift + k[2]) % Modulus) % Buckets
Bucket(k) == <<TableOf(k), Hash(k)>>

\* The place in its bucket of the first object with this very key, 0 if there is
\* none, and what 0x009C1D40 finds.  Mutant of Lookup: the kinds are not compared.
FirstMatch(k) == SelectInSeq(chain[Bucket(k)], LAMBDA o : key[o] = k)

LookupById(k) ==
    LET i == SelectInSeq(chain[Bucket(k)], LAMBDA o : key[o][2] = k[2])
    IN  IF i = 0 THEN Null ELSE chain[Bucket(k)][i]
Lookup(k) == IF FirstMatch(k) = 0 THEN Null ELSE chain[Bucket(k)][FirstMatch(k)]

\* Threads between the first and the last access of a registration to the tables.
AtTables(t) == pc[t] \in {"key", "link"}
Meets(t) == raced' = (raced \/ \E u \in Thread \ {t} : AtTables(u))

\* The tables change, unless threads have met there.
NoLinks == [p \in Table \X (0 .. Buckets - 1) |-> <<>>]
NoCount == [t \in Table |-> 0]
Update(c, n) == /\ chain' = IF raced' THEN NoLinks ELSE c
                /\ count' = IF raced' THEN NoCount ELSE n

\* 0x009C1CB0 unlinks the first match and counts one down, or does nothing.
Unlink(k) ==
    IF FirstMatch(k) = 0 THEN Update(chain, count)
    ELSE Update([chain EXCEPT ![Bucket(k)] = RemoveAt(@, FirstMatch(k))],
                [count EXCEPT ![TableOf(k)] = @ - 1])

\* What a lookup may return.
Found(k) == IF raced THEN Object \cup {Null} ELSE {Lookup(k)}

Busy(o) == \E t \in Thread : pc[t] # "idle" /\ subject[t] = o

-------------------------------------------------------------------------------

Init == /\ chain = NoLinks
        /\ count = NoCount
        /\ live = {}
        /\ key = [o \in Object |-> DefaultKey]
        /\ active = [o \in Object |-> FALSE]
        /\ counter \in Seeds
        /\ lock = FALSE
        /\ pc = [t \in Thread |-> "idle"]
        /\ subject = [t \in Thread |-> Null]
        /\ edx = [t \in Thread |-> 0]
        /\ next = [t \in Thread |-> <<>>]
        /\ cache = [h \in Handle |-> Null]
        /\ name = [h \in Handle |-> DefaultKey]
        /\ target = [h \in Handle |-> Null]
        /\ outdated = [h \in Handle |-> FALSE]
        /\ seed = counter
        /\ draws = 0
        /\ raced = FALSE

\* A constructor, or a copy constructor (0x00955450): the key is the global pair
\* whatever the original's is, and the object is not active.
Construct(o) == /\ o \notin live
                /\ live' = live \cup {o}
                /\ key' = [key EXCEPT ![o] = DefaultKey]
                /\ active' = [active EXCEPT ![o] = FALSE]
                /\ UNCHANGED <<chain, count, handles, threads, drawing, raced>>

\* 0x009C1390 looks the key up and goes on if it is free.
Register(t, o, k) ==
    /\ pc[t] = "idle"
    /\ o \in live /\ ~active[o] /\ ~Busy(o)
    /\ Null \in Found(k)
    /\ subject' = [subject EXCEPT ![t] = o]
    /\ IF k = DefaultKey
          THEN /\ pc' = [pc EXCEPT ![t] = "acquire"]
               /\ UNCHANGED <<key, raced>>
          ELSE /\ pc' = [pc EXCEPT ![t] = "link"]
               /\ key' = [key EXCEPT ![o] = k]
               /\ Meets(t)
    /\ Update(chain, count)
    /\ next' = [next EXCEPT ![t] = IF k = DefaultKey THEN <<>>
                                                     ELSE chain[Bucket(k)]]
    /\ UNCHANGED <<live, active, handles, edx, drawing>>

\* 0x009C12D0: cmpxchg until the byte was clear.  Mutant: it is not tested.
AcquireUntested(t) == /\ pc[t] = "acquire"
                      /\ draws < MaxDraws
                      /\ lock' = TRUE
                      /\ pc' = [pc EXCEPT ![t] = "read"]
                      /\ UNCHANGED <<objects, handles, subject, edx, next, counter,
                                     seed, draws, raced>>
Acquire(t) == /\ pc[t] = "acquire"
              /\ draws < MaxDraws
              /\ ~lock
              /\ lock' = TRUE
              /\ pc' = [pc EXCEPT ![t] = "read"]
              /\ UNCHANGED <<objects, handles, subject, edx, next, counter, seed,
                             draws, raced>>

\* mov edx, [counter]; inc edx: id 0 comes after the last one.
ReadCounter(t) ==
    /\ pc[t] = "read"
    /\ edx' = [edx EXCEPT ![t] = IF counter + 1 = Modulus THEN 0 ELSE counter + 1]
    /\ pc' = [pc EXCEPT ![t] = "write"]
    /\ UNCHANGED <<objects, handles, subject, next, drawing, raced>>

WriteCounter(t) == /\ pc[t] = "write"
                   /\ counter' = edx[t]
                   /\ draws' = draws + 1
                   /\ pc' = [pc EXCEPT ![t] = "release"]
                   /\ UNCHANGED <<objects, handles, subject, edx, next, lock, seed,
                                  raced>>

\* The byte is cleared.  Mutant: it is not.
ReleaseNothing(t) == /\ pc[t] = "release"
                     /\ pc' = [pc EXCEPT ![t] = "key"]
                     /\ UNCHANGED <<objects, handles, subject, edx, next, drawing,
                                    raced>>
Release(t) == /\ pc[t] = "release"
              /\ lock' = FALSE
              /\ pc' = [pc EXCEPT ![t] = "key"]
              /\ UNCHANGED <<objects, handles, subject, edx, next, counter, seed,
                             draws, raced>>

\* The object gets its key, and a new link the head of the bucket as its next.
WriteKey(t) ==
    /\ pc[t] = "key"
    /\ key' = [key EXCEPT ![subject[t]] = <<AutoKind, edx[t]>>]
    /\ next' = [next EXCEPT ![t] = chain[Bucket(<<AutoKind, edx[t]>>)]]
    /\ edx' = [edx EXCEPT ![t] = 0]
    /\ pc' = [pc EXCEPT ![t] = "link"]
    /\ Meets(t)
    /\ Update(chain, count)
    /\ UNCHANGED <<live, active, handles, subject, drawing>>

\* 0x009C1590 makes the link the head and counts it.  Mutant: what was linked
\* before is dropped.
LinkAlone(t) ==
    /\ pc[t] = "link"
    /\ UNCHANGED raced
    /\ LET k == key[subject[t]] IN
          Update([chain EXCEPT ![Bucket(k)] = <<subject[t]>>],
                 [count EXCEPT ![TableOf(k)] = @ + 1])
    /\ next' = [next EXCEPT ![t] = <<>>]
    /\ pc' = [pc EXCEPT ![t] = "mark"]
    /\ UNCHANGED <<live, key, active, handles, subject, edx, drawing>>
Link(t) ==
    /\ pc[t] = "link"
    /\ UNCHANGED raced
    /\ LET k == key[subject[t]] IN
          Update([chain EXCEPT ![Bucket(k)] = <<subject[t]>> \o next[t]],
                 [count EXCEPT ![TableOf(k)] = @ + 1])
    /\ next' = [next EXCEPT ![t] = <<>>]
    /\ pc' = [pc EXCEPT ![t] = "mark"]
    /\ UNCHANGED <<live, key, active, handles, subject, edx, drawing>>

\* Back in 0x009C1390: the object is active.
Mark(t) == /\ pc[t] = "mark"
           /\ active' = [active EXCEPT ![subject[t]] = TRUE]
           /\ subject' = [subject EXCEPT ![t] = Null]
           /\ pc' = [pc EXCEPT ![t] = "idle"]
           /\ UNCHANGED <<chain, count, live, key, handles, edx, next,
                          drawing, raced>>

\* 0x009C1650, from the destructor: an active object is unlinked under its key,
\* and then, found or not, its id becomes its kind.  The byte stays.
Deregister(t, o) ==
    /\ pc[t] = "idle"
    /\ o \in live /\ ~Busy(o)
    /\ subject' = [subject EXCEPT ![t] = o]
    /\ pc' = [pc EXCEPT ![t] = "free"]
    /\ IF active[o] THEN /\ Meets(t)
                         /\ Unlink(key[o])
                         /\ key' = [key EXCEPT ![o] = <<key[o][2], Tomb>>]
                    ELSE UNCHANGED <<chain, count, key, raced>>
    /\ UNCHANGED <<live, active, handles, edx, next, drawing>>

\* The memory of the destroyed object is released; it may be used again.  Nothing
\* reads what it held until it is constructed anew, so it is forgotten here.
Free(t) == /\ pc[t] = "free"
           /\ key' = [key EXCEPT ![subject[t]] = DefaultKey]
           /\ active' = [active EXCEPT ![subject[t]] = FALSE]
           /\ live' = live \ {subject[t]}
           /\ target' = [h \in Handle |-> IF target[h] = subject[t]
                                          THEN Null ELSE target[h]]
           /\ outdated' = [h \in Handle |-> outdated[h] \/ cache[h] = subject[t]]
           /\ subject' = [subject EXCEPT ![t] = Null]
           /\ pc' = [pc EXCEPT ![t] = "idle"]
           /\ UNCHANGED <<chain, count, cache, name, edx, next, drawing, raced>>

\* Insertion of an object that is active already: taken out under its key, which
\* is then restored, and linked again.
Reinsert(t, o) ==
    /\ pc[t] = "idle"
    /\ o \in live /\ active[o] /\ ~Busy(o)
    /\ Meets(t)
    /\ LET k == key[o] IN
          IF FirstMatch(k) = 0
          THEN Update([chain EXCEPT ![Bucket(k)] = <<o>> \o @],
                      [count EXCEPT ![TableOf(k)] = @ + 1])
          ELSE Update([chain EXCEPT ![Bucket(k)] =
                                        <<o>> \o RemoveAt(@, FirstMatch(k))],
                      count)
    /\ UNCHANGED <<live, key, active, handles, threads, drawing>>

-------------------------------------------------------------------------------

\* Objects that are registered and not being destroyed.
Registered == {o \in live : active[o] /\ ~Busy(o)}

\* A handle is filled in for a registered object.
Refer(h, o) == /\ o \in Registered
               /\ cache' = [cache EXCEPT ![h] = o]
               /\ name' = [name EXCEPT ![h] = key[o]]
               /\ target' = [target EXCEPT ![h] = o]
               /\ outdated' = [outdated EXCEPT ![h] = FALSE]
               /\ UNCHANGED <<objects, threads, drawing, raced>>

\* 0x00967F50 looks the key up and keeps what it finds.  (0x00967F10 only returns
\* it.)
Resolve(h) == /\ \E found \in Found(name[h]) : cache' = [cache EXCEPT ![h] = found]
              /\ outdated' = [outdated EXCEPT ![h] = FALSE]
              /\ UNCHANGED <<objects, name, target, threads, drawing, raced>>

Registration(t) == \/ Acquire(t) \/ ReadCounter(t) \/ WriteCounter(t)
                   \/ Release(t) \/ WriteKey(t) \/ Link(t) \/ Mark(t)

Next == \/ \E o \in Object : Construct(o)
        \/ \E h \in Handle : Resolve(h) \/ \E o \in Object : Refer(h, o)
        \/ \E t \in Thread :
              \/ Registration(t) \/ Free(t)
              \/ \E o \in Object : \/ Deregister(t, o) \/ Reinsert(t, o)
                                   \/ \E k \in ExplicitKeys \cup {DefaultKey} :
                                         Register(t, o, k)

Spec == Init /\ [][Next]_vars

\* A thread that registers or destroys an object goes on.
FairSpec == Spec /\ \A t \in Thread : WF_vars(Registration(t) \/ Free(t))

-------------------------------------------------------------------------------

TypeOK == /\ chain \in [Table \X (0 .. Buckets - 1) -> Seq(Object)]
          /\ count \in [Table -> Int]
          /\ live \subseteq Object
          /\ key \in [Object -> Key]
          /\ active \in [Object -> BOOLEAN]
          /\ counter \in Word
          /\ lock \in BOOLEAN
          /\ pc \in [Thread -> {"idle", "acquire", "read", "write", "release", "key",
                               "link", "mark", "free"}]
          /\ subject \in [Thread -> Object \cup {Null}]
          /\ edx \in [Thread -> Word]
          /\ next \in [Thread -> Seq(Object)]
          /\ cache \in [Handle -> Object \cup {Null}]
          /\ name \in [Handle -> Key]
          /\ target \in [Handle -> Object \cup {Null}]
          /\ outdated \in [Handle -> BOOLEAN]
          /\ seed \in Word
          /\ draws \in 0 .. MaxDraws
          /\ raced \in BOOLEAN

\* No two objects get the same automatic key, however the threads interleave and
\* though the counter runs through zero: neither registered ones nor ones whose
\* key is written and whose link is not.
Keyed == Registered \cup {subject[t] : t \in {u \in Thread : pc[u] \in {"link", "mark"}}}
AutoKeysDistinct ==
    \A o, p \in Keyed : Automatic(key[o]) /\ key[o] = key[p] => o = p

\* As long as the threads did not meet at the tables every registered object is
\* found under its key, whatever was linked and unlinked in its bucket.
RegisteredAreFound == ~raced => \A o \in Registered : Lookup(key[o]) = o

\* Nor does a link outlive its object: each one is for an allocated object, in
\* the bucket of the key it has now, and the table counts it.
LinksAreCurrent ==
    ~raced =>
        /\ \A p \in DOMAIN chain : /\ IsInjective(chain[p])
                                   /\ \A o \in ToSet(chain[p]) :
                                         o \in live /\ Bucket(key[o]) = p
        /\ \A t \in Table :
              count[t] = SumFunction([b \in 0 .. Buckets - 1 |-> Len(chain[<<t, b>>])])

\* A handle on an automatic key finds the very object it was made for while that
\* one is registered and nothing after that, although its place in memory may
\* have been used again.
HandlesFindTheirObject ==
    ~raced => \A h \in Handle :
        Automatic(name[h]) =>
            Lookup(name[h]) = IF target[h] \in Registered THEN target[h] ELSE Null

\* The pointer that resolving leaves in such a handle is good until the object it
\* points at is freed, and it never points at that object's successor.
CachedPointersAreGood ==
    ~raced => \A h \in Handle :
        Automatic(name[h]) /\ ~outdated[h] => cache[h] \in {Null, target[h]}

\* The tables hold the registered objects and nothing else.
TablesMatchObjects == RegisteredAreFound /\ LinksAreCurrent

\* A handle leads to its object or nowhere, through the tables and through what it
\* remembers.
HandlesAreGood == HandlesFindTheirObject /\ CachedPointersAreGood

\* Drawing ids never stalls: when a thread waits for the lock another id is drawn.
DrawingNeverStalls ==
    \A d \in 0 .. MaxDraws - 1 :
        (draws = d /\ \E t \in Thread : pc[t] = "acquire") ~> (draws > d)
===============================================================================
