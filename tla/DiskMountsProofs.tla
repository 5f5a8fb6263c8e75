-------------------------- MODULE DiskMountsProofs --------------------------
(***************************************************************************)
(* For any threads, processes, finite set of images and bounds: within a   *)
(* process the calls for one image are serialized, and whatever commands   *)
(* do and whoever dies, a path is handed to a tool only while it shows the *)
(* image that was asked for (the safety part of MountService).  The        *)
(* argument: what is mounted below the directory of an image is that       *)
(* image, since directories are named apart, and caches keep such paths    *)
(* only.  The second part is about processes that come one after the other *)
(* and commands that behave: mounts never meet, what a tool works on stays *)
(* mounted, and an orderly exit leaves nothing behind.                     *)
(***************************************************************************)
EXTENDS DiskMounts, SequenceTheorems, FiniteSetTheorems, WellFoundedInduction, TLAPS

\* The places where an image is mounted.
Home(e) == {Root(e), Ewf(e), Operators(e)}
Placed == {m \in Mount : m.at \in Home(m.of)}

Tables ==
  /\ setup \in Setups /\ table \in Seq(Placed)
  /\ starts \in 0 .. MaxStarts /\ run \in [Procs -> 0 .. MaxStarts]

Caches ==
  /\ mounted \in [Procs -> [Images -> Paths \cup {None}]]
  /\ \A p \in Procs, e \in Images : mounted[p][e] \in {Root(e), Operators(e), None}
  /\ ewfs \in [Procs -> SUBSET Images] /\ guests \in [Procs -> SUBSET Images]

\* The phases of a thread that holds no lock.
Outside == {"idle", "wait", "using"}

Locks ==
  /\ phase \in [Threads -> Phases]
  /\ image \in [Threads -> Images] /\ path \in [Threads -> Paths \cup {None}]
  /\ lock \in [Procs -> [Images -> Threads \cup {None}]]
  /\ \A t \in Threads, e \in Images :
       lock[Proc(t)][e] = t <=> e = image[t] /\ phase[t] \notin Outside

MountInv == Tables /\ Caches /\ Locks

-----------------------------------------------------------------------------
(* The mount table. *)

LEMMA PathsOfImages ==
  ASSUME NEW e \in Images
  PROVE  Root(e) \in Paths /\ Ewf(e) \in Paths /\ Operators(e) \in Paths
  BY DEF Paths

LEMMA HomesApart ==
  ASSUME NEW e \in Images, NEW f \in Images, Root(e) \in Home(f) \/ Operators(e) \in Home(f)
  PROVE  e = f
<1>1. /\ Root(e)[1] = "root" /\ Root(e)[2] = Short[e]
      /\ Operators(e)[1] = "operator" /\ Operators(e)[2] = e
      /\ Root(f)[1] = "root" /\ Root(f)[2] = Short[f] /\ Ewf(f)[1] = "ewf"
      /\ Operators(f)[1] = "operator" /\ Operators(f)[2] = f
  BY DEF Root, Ewf, Operators
<1>2. Short[e] = Short[f] \/ e = f
  BY <1>1 DEF Home
<1> QED BY <1>2, ShortIsInjective

LEMMA WithoutType ==
  ASSUME NEW S, NEW tab \in Seq(S), NEW i \in DOMAIN tab
  PROVE  Without(tab, i) \in Seq(S)
<1>1. Len(tab) \in Nat /\ DOMAIN tab = 1 .. Len(tab) /\ i \in 1 .. Len(tab)
  OBVIOUS
<1>2. PICK n \in Nat : n = Len(tab) - 1
  <2>1. Len(tab) >= 1 /\ Len(tab) - 1 \in Nat
    BY <1>1
  <2> QED BY <2>1
<1>3. Without(tab, i) = [j \in 1 .. n |-> IF j < i THEN tab[j] ELSE tab[j + 1]]
  BY <1>2 DEF Without
<1>4. \A j \in 1 .. n : (IF j < i THEN tab[j] ELSE tab[j + 1]) \in S
  <2> TAKE j \in 1 .. n
  <2>1. j \in 1 .. Len(tab) /\ j + 1 \in 1 .. Len(tab)
    BY <1>1, <1>2
  <2> QED BY <1>1, <2>1
<1>5. Without(tab, i) \in [1 .. n -> S]
  BY <1>3, <1>4
<1> QED BY <1>2, <1>5, SeqDef

\* A set of positions that is not empty has a last one.
LEMMA LastOf ==
  ASSUME NEW n \in Nat, NEW S \in SUBSET (1 .. n), S # {}
  PROVE  \E m \in S : \A k \in S : k <= m
<1> DEFINE T == {n - k : k \in S}
<1> DEFINE R == {ss \in Nat \X Nat : ss[1] < ss[2]}
<1>1. IsWellFoundedOn(R, Nat)
  BY NatLessThanWellFounded DEF OpToRel
<1>2. T \subseteq Nat /\ T # {}
  <2>1. \A k \in S : k \in Nat /\ n - k \in Nat
    OBVIOUS
  <2>2. PICK k \in S : TRUE
    OBVIOUS
  <2> QED BY <2>1, <2>2
<1>3. PICK x \in T : \A y \in T : ~ (<<y, x>> \in R)
  <2> HIDE DEF T, R
  <2> QED BY <1>1, <1>2, WFMin
<1>4. ASSUME NEW y \in T PROVE x <= y
  <2>1. x \in Nat /\ y \in Nat
    BY <1>2, <1>3
  <2>2. ~ (x > y)
    BY <1>3, <2>1
  <2> QED BY <2>1, <2>2
<1>5. PICK m \in S : x = n - m
  BY DEF T
<1>6. ASSUME NEW k \in S PROVE k <= m
  <2>1. n - m <= n - k
    BY <1>4, <1>5
  <2>2. m \in Nat /\ k \in Nat
    OBVIOUS
  <2> HIDE DEF T
  <2> QED BY <2>1, <2>2
<1> QED BY <1>6

LEMMA PeeledType ==
  ASSUME NEW S, NEW tab \in Seq(S), NEW at
  PROVE  Peeled(tab, at) \in Seq(S)
<1> DEFINE here == {i \in DOMAIN tab : tab[i].at = at}
           top == CHOOSE i \in here : \A j \in here : j <= i
<1>1. CASE \E i \in here : (\A j \in here : j <= i) /\ ~ Busy(tab, i)
  <2>1. top \in here
    BY <1>1
  <2>2. Peeled(tab, at) = Without(tab, top)
    BY <1>1 DEF Peeled
  <2>3. top \in DOMAIN tab
    BY <2>1
  <2> HIDE DEF top
  <2> QED BY <2>2, <2>3, WithoutType
<1>2. CASE ~ \E i \in here : (\A j \in here : j <= i) /\ ~ Busy(tab, i)
  BY <1>2 DEF Peeled
<1> QED BY <1>1, <1>2

LEMMA DismantledType ==
  ASSUME table \in Seq(Placed), NEW p, NEW e, NEW at
  PROVE  Dismantled(p, e, at) \in Seq(Placed)
  BY PeeledType DEF Dismantled

\* A place of an image that is mounted shows that image.
LEMMA HomeShows ==
  ASSUME Tables, NEW e \in Images, NEW at \in {Root(e), Operators(e)}, Mounted(at)
  PROVE  Shows(at, e)
<1>1. Len(table) \in Nat /\ DOMAIN table = 1 .. Len(table)
  BY DEF Tables
<1>2. Entries(at) \in SUBSET (1 .. Len(table)) /\ Entries(at) # {}
  BY <1>1 DEF Entries, Mounted
<1>3. PICK i \in Entries(at) : \A j \in Entries(at) : j <= i
  BY <1>1, <1>2, LastOf
<1>4. table[i] \in Placed /\ table[i].at = at
  BY <1>2, <1>3 DEF Tables, Entries
<1>5. table[i].of \in Images /\ at \in Home(table[i].of)
  BY <1>4 DEF Placed, Mount
<1>6. table[i].of = e
  BY <1>5, HomesApart
<1> QED BY <1>3, <1>6 DEF Shows

-----------------------------------------------------------------------------
(* Steps and the mount table. *)

LEMMA ForceType ==
  ASSUME table \in Seq(Placed), NEW at, ForceUnmount(at)
  PROVE  table' \in Seq(Placed)
  BY PeeledType DEF ForceUnmount

LEMMA NewIsPlaced ==
  ASSUME MountInv, NEW t \in Threads, phase[t] \in {"ewf", "loop", "guest"}
  PROVE  New(t) \in Placed
<1>1. image[t] \in Images /\ Proc(t) \in Procs /\ run[Proc(t)] \in 0 .. MaxStarts
  BY ProcsAssumption DEF MountInv, Locks, Tables, Proc
<1>2. Target(t) \in Home(image[t]) /\ Target(t) \in Paths
  BY <1>1, PathsOfImages DEF Target, Home
<1>3. PICK m : m = New(t)
  OBVIOUS
<1>4. /\ m = [at |-> Target(t), of |-> image[t], kind |-> phase[t], ro |-> TRUE,
              by |-> run[Proc(t)]]
  BY <1>3 DEF New
<1>5. m \in Mount /\ m.at = Target(t) /\ m.of = image[t]
  BY <1>1, <1>2, <1>4 DEF Mount
<1> QED BY <1>2, <1>3, <1>5 DEF Placed

LEMMA CommandType ==
  ASSUME MountInv, NEW t \in Threads, phase[t] \in {"ewf", "loop", "guest"},
         NEW works, NEW fails, Command(t, works, fails)
  PROVE  table' \in Seq(Placed)
<1>1. New(t) \in Placed /\ table \in Seq(Placed)
  BY NewIsPlaced DEF MountInv, Tables
<1>2. table' = table \/ table' = Append(table, New(t))
  BY DEF Command
<1> QED BY <1>1, <1>2

LEMMA DismantleType ==
  ASSUME table \in Seq(Placed), NEW p, NEW e, NEW at, Dismantle(p, e, at)
  PROVE  table' \in Seq(Placed)
  BY DismantledType DEF Dismantle

LEMMA TablesStep ==
  ASSUME MountInv, [Next]_vars
  PROVE  Tables'
<1>0. table \in Seq(Placed)
  BY DEF MountInv, Tables
<1>1. ASSUME NEW t \in Threads, Work(t) PROVE Tables'
  <2>1. UNCHANGED <<setup, starts, run>>
    BY <1>1 DEF Work, CheckCache, CleanRoot, CleanEwf, MountEwf, MountLoop, MountGuest,
                Fallback, Verify, Raise, Serve, procVars
  <2>2. CASE CheckCache(t) \/ Verify(t)
    BY <1>0, <2>1, <2>2 DEF CheckCache, Verify, Serve, MountInv, Tables
  <2>3. CASE CleanRoot(t) \/ CleanEwf(t)
    BY <1>0, <2>1, <2>3, ForceType DEF CleanRoot, CleanEwf, MountInv, Tables
  <2>4. CASE MountEwf(t)
    <3>1. phase[t] = "ewf" /\ Command(t, "loop", "fallback")
      BY <2>4 DEF MountEwf
    <3> QED BY <2>1, <3>1, CommandType DEF MountInv, Tables
  <2>5. CASE MountLoop(t)
    <3>1. phase[t] = "loop" /\ Command(t, "verify", "fallback")
      BY <2>5 DEF MountLoop
    <3> QED BY <2>1, <3>1, CommandType DEF MountInv, Tables
  <2>6. CASE MountGuest(t)
    <3>1. phase[t] = "guest" /\ Command(t, "verify", "raise")
      BY <2>6 DEF MountGuest
    <3> QED BY <2>1, <3>1, CommandType DEF MountInv, Tables
  <2>7. CASE Fallback(t) \/ Raise(t)
    BY <1>0, <2>1, <2>7, DismantleType DEF Fallback, Raise, MountInv, Tables
  <2> QED BY <1>1, <2>2, <2>3, <2>4, <2>5, <2>6, <2>7 DEF Work
<1>2. ASSUME NEW t \in Threads, Take(t) \/ Finish(t) \/ \E e \in Images : Call(t, e)
      PROVE  Tables'
  BY <1>2 DEF Take, Finish, Call, procVars, MountInv, Tables
<1>3. ASSUME NEW p \in Procs, Start(p) PROVE Tables'
  <2>1. /\ UNCHANGED <<setup, table>> /\ starts < MaxStarts /\ starts' = starts + 1
        /\ run' = [run EXCEPT ![p] = starts + 1]
    BY <1>3 DEF Start
  <2>2. starts' \in 0 .. MaxStarts
    BY <2>1, BoundsAssumption DEF MountInv, Tables
  <2> QED BY <2>1, <2>2 DEF MountInv, Tables
<1>4. ASSUME NEW p \in Procs, Sweep(p) PROVE Tables'
  BY <1>0, <1>4, ForceType DEF Sweep, MountInv, Tables
<1>5. ASSUME NEW p \in Procs, Exit(p) \/ Exited(p) PROVE Tables'
  BY <1>5 DEF Exit, Exited, MountInv, Tables
<1>6. ASSUME NEW p \in Procs, NEW e \in Images, Unmount(p, e) PROVE Tables'
  BY <1>0, <1>6, DismantleType DEF Unmount, procVars, MountInv, Tables
<1>7. ASSUME NEW p \in Procs, Crash(p) PROVE Tables'
  <2>1. UNCHANGED <<setup, starts, run>>
    BY <1>7 DEF Crash
  <2>2. \/ table' = table
        \/ \E t \in Threads : phase[t] \in {"ewf", "loop", "guest"} /\ table' = Append(table, New(t))
    BY <1>7 DEF Crash, Own
  <2>3. table' \in Seq(Placed)
    BY <1>0, <2>2, NewIsPlaced
  <2> QED BY <2>1, <2>3 DEF MountInv, Tables
<1>8. CASE ForeignUmount
  BY <1>0, <1>8, PeeledType DEF ForeignUmount, procVars, MountInv, Tables
<1>9. CASE UNCHANGED vars
  BY <1>9 DEF vars, procVars, MountInv, Tables
<1> QED BY <1>1, <1>2, <1>3, <1>4, <1>5, <1>6, <1>7, <1>8, <1>9 DEF Next

-----------------------------------------------------------------------------
(* Steps and the caches. *)

LEMMA KeepType ==
  ASSUME MountInv, NEW t \in Threads, NEW at \in {Root(image[t]), Operators(image[t]), None},
         Keep(t, at), UNCHANGED <<ewfs, guests>>
  PROVE  Caches'
<1>1. image[t] \in Images /\ Proc(t) \in Procs
  BY ProcsAssumption DEF MountInv, Locks, Proc
<1>2. at \in Paths \cup {None}
  BY <1>1, PathsOfImages
<1> QED BY <1>1, <1>2 DEF Keep, MountInv, Caches

LEMMA CachesStep ==
  ASSUME MountInv, [Next]_vars
  PROVE  Caches'
<1>0. Caches /\ \A t \in Threads : image[t] \in Images /\ Proc(t) \in Procs
  BY ProcsAssumption DEF MountInv, Locks, Proc
<1>1. ASSUME NEW t \in Threads, Work(t) PROVE Caches'
  <2>1. CASE CheckCache(t)
    <3>1. UNCHANGED <<ewfs, guests>>
      BY <2>1 DEF CheckCache, Serve
    <3>2. mounted' = mounted \/ Keep(t, Operators(image[t])) \/ Keep(t, None)
      BY <2>1 DEF CheckCache
    <3>3. CASE mounted' = mounted
      BY <1>0, <3>1, <3>3 DEF Caches
    <3> QED BY <3>1, <3>2, <3>3, KeepType
  <2>2. CASE Verify(t)
    <3>1. UNCHANGED <<ewfs, guests>> /\ (mounted' = mounted \/ Keep(t, Root(image[t])))
      BY <2>2 DEF Verify, Serve, cacheVars
    <3>2. CASE mounted' = mounted
      BY <1>0, <3>1, <3>2 DEF Caches
    <3> QED BY <3>1, <3>2, KeepType
  <2>3. CASE CleanRoot(t) \/ CleanEwf(t) \/ MountLoop(t)
    BY <1>0, <2>3 DEF CleanRoot, CleanEwf, MountLoop, cacheVars, Caches
  <2>4. CASE MountEwf(t)
    BY <1>0, <2>4 DEF MountEwf, Caches
  <2>5. CASE MountGuest(t)
    BY <1>0, <2>5 DEF MountGuest, Caches
  <2>6. CASE Fallback(t) \/ Raise(t)
    BY <1>0, <2>6 DEF Fallback, Raise, Dismantle, Caches
  <2> QED BY <1>1, <2>1, <2>2, <2>3, <2>4, <2>5, <2>6 DEF Work
<1>2. ASSUME NEW t \in Threads, Take(t) \/ Finish(t) \/ \E e \in Images : Call(t, e)
      PROVE  Caches'
  BY <1>0, <1>2 DEF Take, Finish, Call, cacheVars, Caches
<1>3. ASSUME NEW p \in Procs, Start(p) \/ Sweep(p) \/ Exit(p) PROVE Caches'
  BY <1>0, <1>3 DEF Start, Sweep, Exit, cacheVars, Caches
<1>4. ASSUME NEW p \in Procs, Exited(p) \/ Crash(p) PROVE Caches'
  <2>1. Forget(p)
    BY <1>4 DEF Exited, Crash
  <2> QED BY <1>0, <2>1 DEF Forget, Caches
<1>5. ASSUME NEW p \in Procs, NEW e \in Images, Unmount(p, e) PROVE Caches'
  BY <1>0, <1>5 DEF Unmount, Dismantle, Caches
<1>6. CASE ForeignUmount \/ UNCHANGED vars
  BY <1>0, <1>6 DEF ForeignUmount, vars, cacheVars, Caches
<1> QED BY <1>1, <1>2, <1>3, <1>4, <1>5, <1>6 DEF Next

-----------------------------------------------------------------------------
(* Steps and the locks. *)

\* A thread goes on under its lock.
LEMMA GoesOn ==
  ASSUME MountInv, NEW t \in Threads, NEW where \in Phases \ Outside,
         phase[t] \notin Outside, Goto(t, where), UNCHANGED <<lock, image, path>>
  PROVE  Locks'
  BY DEF MountInv, Locks, Goto, Proc

\* A thread answers and gives its lock back.
LEMMA GivesBack ==
  ASSUME MountInv, NEW t \in Threads, NEW where \in {"idle", "using"},
         phase[t] \notin Outside, Goto(t, where), Free(t), image' = image,
         path' \in [Threads -> Paths \cup {None}]
  PROVE  Locks'
<1>1. image[t] \in Images /\ Proc(t) \in Procs
  BY ProcsAssumption DEF MountInv, Locks, Proc
<1>2. lock' \in [Procs -> [Images -> Threads \cup {None}]] /\ lock'[Proc(t)][image[t]] = None
  BY <1>1 DEF MountInv, Locks, Free
<1>3. \A p \in Procs, e \in Images :
        ~ (p = Proc(t) /\ e = image[t]) => lock'[p][e] = lock[p][e]
  BY <1>1 DEF MountInv, Locks, Free
<1>4. /\ phase' \in [Threads -> Phases] /\ phase'[t] = where
      /\ \A u \in Threads \ {t} : phase'[u] = phase[u]
  BY DEF MountInv, Locks, Goto, Phases
<1>5. ASSUME NEW u \in Threads, NEW e \in Images
      PROVE  lock'[Proc(u)][e] = u <=> e = image[u] /\ phase'[u] \notin Outside
  <2>1. Proc(u) \in Procs /\ u # None
    BY ProcsAssumption, NoneAssumption DEF Proc
  <2>2. lock[Proc(t)][image[t]] = t
    BY <1>1 DEF MountInv, Locks
  <2>3. CASE u = t
    <3>1. phase'[u] \in Outside
      BY <1>4, <2>3 DEF Outside
    <3>2. lock'[Proc(u)][e] # u
      BY <1>1, <1>2, <1>3, <2>1, <2>3 DEF MountInv, Locks
    <3> QED BY <3>1, <3>2
  <2>4. CASE u # t /\ Proc(u) = Proc(t) /\ e = image[t]
    <3>1. lock'[Proc(u)][e] # u /\ lock[Proc(u)][e] # u
      BY <1>2, <2>1, <2>2, <2>4
    <3> QED BY <1>4, <2>4, <3>1 DEF MountInv, Locks
  <2>5. CASE u # t /\ ~ (Proc(u) = Proc(t) /\ e = image[t])
    BY <1>3, <1>4, <2>1, <2>5 DEF MountInv, Locks
  <2> QED BY <2>3, <2>4, <2>5
<1> QED BY <1>2, <1>4, <1>5 DEF MountInv, Locks, Proc

LEMMA TakeLocks ==
  ASSUME MountInv, NEW t \in Threads, Take(t)
  PROVE  Locks'
<1>1. image[t] \in Images /\ Proc(t) \in Procs
  BY ProcsAssumption DEF MountInv, Locks, Proc
<1>2. /\ lock' \in [Procs -> [Images -> Threads \cup {None}]] /\ lock'[Proc(t)][image[t]] = t
      /\ lock[Proc(t)][image[t]] = None
  BY <1>1 DEF MountInv, Locks, Take
<1>3. \A p \in Procs, e \in Images :
        ~ (p = Proc(t) /\ e = image[t]) => lock'[p][e] = lock[p][e]
  BY <1>1 DEF MountInv, Locks, Take
<1>4. /\ phase' \in [Threads -> Phases] /\ phase'[t] = "cached" /\ phase[t] = "wait"
      /\ \A u \in Threads \ {t} : phase'[u] = phase[u]
      /\ image' = image /\ path' = path
  BY DEF MountInv, Locks, Take, Goto, Phases
<1>5. ASSUME NEW u \in Threads, NEW e \in Images
      PROVE  lock'[Proc(u)][e] = u <=> e = image[u] /\ phase'[u] \notin Outside
  <2>1. Proc(u) \in Procs /\ u # None /\ t # None
    BY ProcsAssumption, NoneAssumption DEF Proc
  <2>2. CASE u = t
    <3>1. phase'[u] \notin Outside /\ phase[u] \in Outside
      BY <1>4, <2>2 DEF Outside
    <3>2. lock[Proc(u)][e] # u
      BY <3>1 DEF MountInv, Locks
    <3> QED BY <1>2, <1>3, <2>1, <2>2, <3>1, <3>2
  <2>3. CASE u # t /\ Proc(u) = Proc(t) /\ e = image[t]
    <3>1. lock'[Proc(u)][e] # u /\ lock[Proc(u)][e] # u
      BY <1>2, <2>1, <2>3
    <3> QED BY <1>4, <2>3, <3>1 DEF MountInv, Locks
  <2>4. CASE u # t /\ ~ (Proc(u) = Proc(t) /\ e = image[t])
    BY <1>3, <1>4, <2>1, <2>4 DEF MountInv, Locks
  <2> QED BY <2>2, <2>3, <2>4
<1> QED BY <1>2, <1>4, <1>5 DEF MountInv, Locks, Proc

\* A thread without a lock goes to another place without one.
LEMMA GoesOutside ==
  ASSUME MountInv, NEW t \in Threads, NEW where \in Outside, phase[t] \in Outside,
         Goto(t, where), lock' = lock, image' \in [Threads -> Images],
         \A u \in Threads \ {t} : image'[u] = image[u],
         path' \in [Threads -> Paths \cup {None}]
  PROVE  Locks'
<1>1. /\ phase' \in [Threads -> Phases] /\ phase'[t] = where
      /\ \A u \in Threads \ {t} : phase'[u] = phase[u]
  BY DEF MountInv, Locks, Goto, Phases, Outside
<1>2. ASSUME NEW u \in Threads, NEW e \in Images
      PROVE  lock'[Proc(u)][e] = u <=> e = image'[u] /\ phase'[u] \notin Outside
  BY <1>1 DEF MountInv, Locks
<1> QED BY <1>1, <1>2 DEF MountInv, Locks, Proc

LEMMA CrashLocks ==
  ASSUME MountInv, NEW p \in Procs, Crash(p)
  PROVE  Locks'
<1>1. /\ lock' = [lock EXCEPT ![p] = [e \in Images |-> None]]
      /\ phase' = [t \in Threads |-> IF t \in Own(p) THEN "idle" ELSE phase[t]]
      /\ path' = [t \in Threads |-> IF t \in Own(p) THEN None ELSE path[t]]
      /\ image' = image
  BY DEF Crash
<1>2. lock' \in [Procs -> [Images -> Threads \cup {None}]]
  BY <1>1 DEF MountInv, Locks
<1>3. phase' \in [Threads -> Phases] /\ path' \in [Threads -> Paths \cup {None}]
  BY <1>1 DEF MountInv, Locks, Phases
<1>4. ASSUME NEW u \in Threads, NEW e \in Images
      PROVE  lock'[Proc(u)][e] = u <=> e = image[u] /\ phase'[u] \notin Outside
  <2>1. Proc(u) \in Procs /\ u # None
    BY ProcsAssumption, NoneAssumption DEF Proc
  <2>2. CASE Proc(u) = p
    <3>1. phase'[u] = "idle"
      BY <1>1, <2>2 DEF Own, Proc
    <3>2. lock'[Proc(u)][e] = None
      BY <1>1, <2>2 DEF MountInv, Locks
    <3> QED BY <2>1, <3>1, <3>2 DEF Outside
  <2>3. CASE Proc(u) # p
    <3>1. phase'[u] = phase[u]
      BY <1>1, <2>3 DEF Own, Proc
    <3>2. lock'[Proc(u)][e] = lock[Proc(u)][e]
      BY <1>1, <2>1, <2>3 DEF MountInv, Locks
    <3> QED BY <3>1, <3>2 DEF MountInv, Locks
  <2> QED BY <2>2, <2>3
<1> QED BY <1>1, <1>2, <1>3, <1>4 DEF MountInv, Locks, Proc

LEMMA ServeLocks ==
  ASSUME MountInv, NEW t \in Threads, NEW at \in Paths, phase[t] \notin Outside, Serve(t, at)
  PROVE  Locks'
<1>1. Goto(t, "using") /\ Free(t) /\ image' = image /\ path' = [path EXCEPT ![t] = at]
  BY DEF Serve
<1>2. path' \in [Threads -> Paths \cup {None}]
  BY <1>1 DEF MountInv, Locks
<1> QED BY <1>1, <1>2, GivesBack

LEMMA LocksStep ==
  ASSUME MountInv, [Next]_vars
  PROVE  Locks'
<1>0. Locks /\ \A t \in Threads : image[t] \in Images /\ Proc(t) \in Procs
  BY ProcsAssumption DEF MountInv, Locks, Proc
<1>1. ASSUME NEW t \in Threads, Work(t) PROVE Locks'
  <2>1. /\ {Root(image[t]), Ewf(image[t]), Operators(image[t])} \subseteq Paths
        /\ mounted[Proc(t)][image[t]] \in {Root(image[t]), Operators(image[t]), None}
    BY <1>0, PathsOfImages DEF MountInv, Caches
  <2>2. phase[t] \notin Outside
    BY <1>1 DEF Work, CheckCache, CleanRoot, CleanEwf, MountEwf, MountLoop, MountGuest,
                Fallback, Verify, Raise, Outside
  <2>3. CASE CheckCache(t)
    <3>1. \/ \E at \in Paths : Serve(t, at)
          \/ Goto(t, "idle") /\ Free(t) /\ UNCHANGED <<image, path>>
          \/ Goto(t, "clean_root") /\ UNCHANGED <<lock, image, path>>
      BY <2>1, <2>3 DEF CheckCache
    <3>2. "clean_root" \in Phases \ Outside /\ path \in [Threads -> Paths \cup {None}]
      BY <1>0 DEF Phases, Outside, Locks
    <3> QED BY <2>2, <3>1, <3>2, ServeLocks, GivesBack, GoesOn
  <2>4. CASE Verify(t)
    <3>1. \/ \E at \in Paths : Serve(t, at)
          \/ Goto(t, "raise") /\ UNCHANGED <<lock, image, path>>
      BY <2>1, <2>4 DEF Verify
    <3>2. "raise" \in Phases \ Outside
      BY DEF Phases, Outside
    <3> QED BY <2>2, <3>1, <3>2, ServeLocks, GoesOn
  <2>5. CASE Raise(t)
    <3>1. Goto(t, "idle") /\ Free(t) /\ UNCHANGED <<image, path>>
      BY <2>5 DEF Raise
    <3> QED BY <1>0, <2>2, <3>1, GivesBack DEF Locks
  <2>6. CASE CleanRoot(t) \/ CleanEwf(t) \/ MountEwf(t) \/ MountLoop(t) \/ MountGuest(t)
              \/ Fallback(t)
    <3>1. UNCHANGED <<lock, image, path>>
      BY <2>6 DEF CleanRoot, CleanEwf, MountEwf, MountLoop, MountGuest, Fallback
    <3>2. First(image[t]) \in {"ewf", "loop", "guest"}
      <4>1. setup.format[image[t]] \in Formats
        BY <1>0, SetupsAssumption DEF MountInv, Tables
      <4> QED BY <4>1 DEF First, Formats
    <3>3. \E where \in {"clean_ewf", "ewf", "loop", "guest", "verify", "fallback", "raise"} :
             Goto(t, where)
      BY <2>6, <3>2 DEF CleanRoot, CleanEwf, MountEwf, MountLoop, MountGuest, Fallback, Command
    <3>4. {"clean_ewf", "ewf", "loop", "guest", "verify", "fallback", "raise"}
            \subseteq Phases \ Outside
      BY DEF Phases, Outside
    <3> QED BY <2>2, <3>1, <3>3, <3>4, GoesOn
  <2> QED BY <1>1, <2>3, <2>4, <2>5, <2>6 DEF Work
<1>2. ASSUME NEW t \in Threads, Finish(t) PROVE Locks'
  <2>1. /\ phase[t] = "using" /\ Goto(t, "idle") /\ UNCHANGED <<lock, image>>
        /\ path' = [path EXCEPT ![t] = None]
    BY <1>2 DEF Finish
  <2>2. path' \in [Threads -> Paths \cup {None}] /\ image' \in [Threads -> Images]
    BY <1>0, <2>1 DEF Locks
  <2> QED BY <2>1, <2>2, GoesOutside DEF Outside
<1>3. ASSUME NEW t \in Threads, NEW e \in Images, Call(t, e) PROVE Locks'
  <2>1. /\ phase[t] = "idle" /\ Goto(t, "wait") /\ UNCHANGED <<lock, path>>
        /\ image' = [image EXCEPT ![t] = e]
    BY <1>3 DEF Call
  <2>2. /\ path' \in [Threads -> Paths \cup {None}] /\ image' \in [Threads -> Images]
        /\ \A u \in Threads \ {t} : image'[u] = image[u]
    BY <1>0, <2>1 DEF Locks
  <2> QED BY <2>1, <2>2, GoesOutside DEF Outside
<1>4. ASSUME UNCHANGED threadVars PROVE Locks'
  BY <1>0, <1>4 DEF threadVars, Locks, Proc
<1>5. ASSUME NEW p \in Procs,
             Start(p) \/ Sweep(p) \/ Exit(p) \/ Exited(p) \/ \E e \in Images : Unmount(p, e)
      PROVE  Locks'
  BY <1>4, <1>5 DEF Start, Sweep, Exit, Exited, Unmount
<1>6. CASE ForeignUmount \/ UNCHANGED vars
  BY <1>4, <1>6 DEF ForeignUmount, vars
<1> QED BY <1>1, <1>2, <1>3, <1>5, <1>6, TakeLocks, CrashLocks DEF Next

-----------------------------------------------------------------------------
(* The invariant. *)

LEMMA OperatorsFinite ==
  ASSUME setup \in Setups, IsFiniteSet(Images)
  PROVE  Cardinality(OperatorsMounts) \in Nat /\ OperatorsMounts \subseteq Placed
<1> DEFINE C == {e \in Images : Covered(e)}
           at(e) == [at |-> Operators(e), of |-> e, kind |-> "operator", ro |-> setup.ro, by |-> 0]
           f == [e \in C |-> at(e)]
<1>1. OperatorsMounts = {at(e) : e \in C}
  BY DEF OperatorsMounts
<1>2. IsFiniteSet(C)
  BY FS_Subset
<1>3. f \in Surjection(C, OperatorsMounts)
  BY <1>1 DEF Surjection
<1>4. IsFiniteSet(OperatorsMounts)
  BY <1>2, <1>3, FS_Surjection
<1>5. ASSUME NEW e \in C PROVE at(e) \in Placed
  <2>1. setup.ro \in BOOLEAN /\ 0 \in 0 .. MaxStarts
    BY SetupsAssumption, BoundsAssumption
  <2>2. at(e) \in Mount /\ at(e).at = Operators(e) /\ at(e).of = e
    BY <2>1, PathsOfImages DEF Mount
  <2> QED BY <2>2 DEF Placed, Home
<1> QED BY <1>1, <1>4, <1>5, FS_CardinalityType

LEMMA MountStart ==
  ASSUME IsFiniteSet(Images), Init
  PROVE  MountInv
<1>1. Cardinality(OperatorsMounts) \in Nat /\ OperatorsMounts \subseteq Placed
  BY OperatorsFinite DEF Init
<1>2. table \in [1 .. Cardinality(OperatorsMounts) -> OperatorsMounts]
  BY DEF Init
<1>3. table \in [1 .. Cardinality(OperatorsMounts) -> Placed]
  BY <1>1, <1>2
<1>4. table \in Seq(Placed)
  BY <1>1, <1>3, SeqDef
<1>5. Tables
  BY <1>4, BoundsAssumption DEF Init, Tables
<1>6. Caches
  BY DEF Init, Caches
<1>7. Locks
  <2>1. \A t \in Threads : Proc(t) \in Procs /\ t # None
    BY ProcsAssumption, NoneAssumption DEF Proc
  <2> QED BY <2>1 DEF Init, Locks, Phases, Outside
<1> QED BY <1>5, <1>6, <1>7 DEF MountInv

LEMMA MountStep == MountInv /\ [Next]_vars => MountInv'
  BY TablesStep, CachesStep, LocksStep DEF MountInv

LEMMA MountInvIsType == MountInv => TypeOK
<1> SUFFICES ASSUME MountInv PROVE TypeOK
  OBVIOUS
<1>1. Placed \subseteq Mount
  BY DEF Placed
<1>2. table \in Seq(Mount)
  BY <1>1, SeqMonotonic DEF MountInv, Tables
<1> QED BY <1>2 DEF MountInv, Tables, Caches, Locks, TypeOK, Outside

\* Every variable keeps its type, and the lock of an image is held by exactly
\* the thread of the process that works for it (mount_disk_image).
THEOREM Serialized ==
  ASSUME IsFiniteSet(Images)
  PROVE  Spec => []TypeOK
<1>1. Init => MountInv
  BY MountStart
<1> QED BY <1>1, MountStep, MountInvIsType, PTL DEF Spec

-----------------------------------------------------------------------------
(* Refinement. *)

Asked == [t \in Threads |-> IF Working(t) THEN image[t] ELSE None]
Granted == [t \in Threads |-> IF phase[t] = "using" THEN image[t] ELSE None]
Showing == {e \in Images : \E at \in {Root(e), Operators(e)} : ReadOnly(at) /\ Shows(at, e)}

\* A step that moves no thread between idle, working and using.
LEMMA SameCalls ==
  ASSUME \A t \in Threads : Asked'[t] = Asked[t] /\ Granted'[t] = Granted[t]
  PROVE  Service!Change
<1>1. Asked' = Asked /\ Granted' = Granted
  BY DEF Asked, Granted
<1>2. Showing' \subseteq Images
  BY DEF Showing
<1> QED BY <1>1, <1>2 DEF Service!Change, Asked, Granted, Showing

LEMMA StaysWorking ==
  ASSUME MountInv, NEW t \in Threads, NEW where, where \notin {"idle", "using"},
         phase[t] \notin {"idle", "using"}, Goto(t, where), image' = image
  PROVE  Service!Change
<1>1. phase'[t] = where /\ \A u \in Threads \ {t} : phase'[u] = phase[u]
  BY DEF MountInv, Locks, Goto
<1>2. \A u \in Threads : Asked'[u] = Asked[u] /\ Granted'[u] = Granted[u]
  BY <1>1 DEF Asked, Granted, Working
<1> QED BY <1>2, SameCalls

LEMMA Refuses ==
  ASSUME MountInv, NEW t \in Threads, phase[t] \notin {"idle", "using"},
         Goto(t, "idle"), image' = image
  PROVE  Service!Refuse(t)
<1>1. phase'[t] = "idle" /\ \A u \in Threads \ {t} : phase'[u] = phase[u]
  BY DEF MountInv, Locks, Goto
<1>2. image[t] \in Images /\ image[t] # None
  BY NoneAssumption DEF MountInv, Locks
<1>3. Asked[t] # None
  BY <1>2 DEF Asked, Working
<1>4. Asked' = [Asked EXCEPT ![t] = None]
  BY <1>1 DEF Asked, Working
<1>5. Granted' = Granted
  <2>1. \A u \in Threads : Granted'[u] = Granted[u]
    BY <1>1 DEF Granted
  <2> QED BY <2>1 DEF Granted
<1>6. Showing' \subseteq Images
  BY DEF Showing
<1> QED BY <1>3, <1>4, <1>5, <1>6 DEF Service!Refuse, Asked, Granted, Showing

LEMMA Grants ==
  ASSUME MountInv, NEW t \in Threads, phase[t] \notin {"idle", "using"},
         NEW at \in {Root(image[t]), Operators(image[t])}, ReadOnly(at), Serve(t, at)
  PROVE  Service!Grant(t)
<1>1. Goto(t, "using") /\ image' = image /\ table' = table
  BY DEF Serve
<1>2. phase'[t] = "using" /\ \A u \in Threads \ {t} : phase'[u] = phase[u]
  BY <1>1 DEF MountInv, Locks, Goto
<1>3. image[t] \in Images
  BY DEF MountInv, Locks
<1>4. Shows(at, image[t])
  BY <1>3, HomeShows DEF MountInv, ReadOnly, Mounted
<1>5. Asked[t] = image[t]
  BY DEF Asked, Working
<1>6. Asked[t] \in Showing
  BY <1>3, <1>4, <1>5 DEF Showing
<1>7. Granted' = [Granted EXCEPT ![t] = Asked[t]]
  BY <1>1, <1>2, <1>5 DEF Granted
<1>8. Asked' = [Asked EXCEPT ![t] = None]
  BY <1>1, <1>2 DEF Asked, Working
<1>9. Showing' = Showing
  BY <1>1 DEF Showing, ReadOnly, Shows, Entries
<1> QED BY <1>6, <1>7, <1>8, <1>9 DEF Service!Grant, Asked, Granted, Showing

LEMMA WorkRefines ==
  ASSUME MountInv, NEW t \in Threads, Work(t)
  PROVE  Service!Next
<1>1. phase[t] \notin {"idle", "using"}
  BY DEF Work, CheckCache, CleanRoot, CleanEwf, MountEwf, MountLoop, MountGuest, Fallback,
         Verify, Raise
<1>2. image[t] \in Images /\ Proc(t) \in Procs
  BY ProcsAssumption DEF MountInv, Locks, Proc
<1>3. CASE CheckCache(t)
  <2>1. mounted[Proc(t)][image[t]] \in {Root(image[t]), Operators(image[t]), None}
    BY <1>2 DEF MountInv, Caches
  <2>2. \/ \E at \in {Root(image[t]), Operators(image[t])} : ReadOnly(at) /\ Serve(t, at)
        \/ Goto(t, "idle") /\ image' = image
        \/ Goto(t, "clean_root") /\ image' = image
    BY <1>3, <2>1 DEF CheckCache
  <2> QED BY <1>1, <2>2, Grants, Refuses, StaysWorking DEF Service!Next
<1>4. CASE Verify(t)
  <2>1. \/ ReadOnly(Root(image[t])) /\ Serve(t, Root(image[t]))
        \/ Goto(t, "raise") /\ image' = image
    BY <1>4 DEF Verify
  <2> QED BY <1>1, <2>1, Grants, StaysWorking DEF Service!Next
<1>5. CASE Raise(t)
  <2>1. Goto(t, "idle") /\ image' = image
    BY <1>5 DEF Raise
  <2> QED BY <1>1, <2>1, Refuses DEF Service!Next
<1>6. CASE CleanRoot(t) \/ CleanEwf(t) \/ MountEwf(t) \/ MountLoop(t) \/ MountGuest(t)
            \/ Fallback(t)
  <2>1. image' = image
    BY <1>6 DEF CleanRoot, CleanEwf, MountEwf, MountLoop, MountGuest, Fallback
  <2>2. First(image[t]) \in {"ewf", "loop", "guest"}
    <3>1. setup.format[image[t]] \in Formats
      BY <1>2, SetupsAssumption DEF MountInv, Tables
    <3> QED BY <3>1 DEF First, Formats
  <2>3. \E where \in {"clean_ewf", "ewf", "loop", "guest", "verify", "fallback", "raise"} :
           Goto(t, where)
    BY <1>6, <2>2 DEF CleanRoot, CleanEwf, MountEwf, MountLoop, MountGuest, Fallback, Command
  <2> QED BY <1>1, <2>1, <2>3, StaysWorking DEF Service!Next
<1> QED BY <1>3, <1>4, <1>5, <1>6 DEF Work

LEMMA StepRefines ==
  ASSUME MountInv, [Next]_vars
  PROVE  [Service!Next]_Service!vars
<1>0. ASSUME phase' = phase, image' = image PROVE Service!Next
  <2>1. \A t \in Threads : Asked'[t] = Asked[t] /\ Granted'[t] = Granted[t]
    BY <1>0 DEF Asked, Granted, Working
  <2> QED BY <2>1, SameCalls DEF Service!Next
<1>1. ASSUME NEW t \in Threads, Take(t) PROVE Service!Next
  <2>1. phase[t] = "wait" /\ Goto(t, "cached") /\ image' = image
    BY <1>1 DEF Take
  <2> QED BY <2>1, StaysWorking DEF Service!Next
<1>2. ASSUME NEW t \in Threads, Finish(t) PROVE Service!Next
  <2>1. phase[t] = "using" /\ Goto(t, "idle") /\ image' = image /\ table' = table
    BY <1>2 DEF Finish
  <2>2. phase'[t] = "idle" /\ \A u \in Threads \ {t} : phase'[u] = phase[u]
    BY <2>1 DEF MountInv, Locks, Goto
  <2>3. image[t] # None
    BY NoneAssumption DEF MountInv, Locks
  <2>4. Granted[t] # None /\ Granted' = [Granted EXCEPT ![t] = None]
    BY <2>1, <2>2, <2>3 DEF Granted
  <2>5. Asked' = Asked
    <3>1. \A u \in Threads : Asked'[u] = Asked[u]
      BY <2>1, <2>2 DEF Asked, Working
    <3> QED BY <3>1 DEF Asked
  <2>6. Showing' = Showing
    BY <2>1 DEF Showing, ReadOnly, Shows, Entries
  <2>7. Service!Done(t)
    BY <2>4, <2>5, <2>6 DEF Service!Done, Asked, Granted, Showing
  <2> QED BY <2>7 DEF Service!Next
<1>3. ASSUME NEW t \in Threads, NEW e \in Images, Call(t, e) PROVE Service!Next
  <2>1. /\ phase[t] = "idle" /\ Goto(t, "wait") /\ table' = table
        /\ image' = [image EXCEPT ![t] = e]
    BY <1>3 DEF Call
  <2>2. /\ phase'[t] = "wait" /\ \A u \in Threads \ {t} : phase'[u] = phase[u]
        /\ image'[t] = e /\ \A u \in Threads \ {t} : image'[u] = image[u]
    BY <2>1 DEF MountInv, Locks, Goto
  <2>3. Asked[t] = None /\ Granted[t] = None
    BY <2>1 DEF Asked, Granted, Working
  <2>4. Asked' = [Asked EXCEPT ![t] = e]
    BY <2>2 DEF Asked, Working
  <2>5. Granted' = Granted
    <3>1. \A u \in Threads : Granted'[u] = Granted[u]
      BY <2>1, <2>2 DEF Granted
    <3> QED BY <3>1 DEF Granted
  <2>6. Showing' = Showing
    BY <2>1 DEF Showing, ReadOnly, Shows, Entries
  <2>7. Service!Ask(t, e)
    BY <2>3, <2>4, <2>5, <2>6 DEF Service!Ask, Asked, Granted, Showing
  <2> QED BY <2>7 DEF Service!Next
<1>4. ASSUME NEW p \in Procs,
             Start(p) \/ Sweep(p) \/ Exit(p) \/ Exited(p) \/ \E e \in Images : Unmount(p, e)
      PROVE  Service!Next
  BY <1>0, <1>4 DEF Start, Sweep, Exit, Exited, Unmount, threadVars
<1>5. ASSUME NEW p \in Procs, Crash(p) PROVE Service!Next
  <2>1. /\ phase' = [t \in Threads |-> IF t \in Own(p) THEN "idle" ELSE phase[t]]
        /\ image' = image /\ Own(p) \in SUBSET Threads
    BY <1>5 DEF Crash, Own
  <2>2. Asked' = [t \in Threads |-> IF t \in Own(p) THEN None ELSE Asked[t]]
    BY <2>1 DEF Asked, Working
  <2>3. Granted' = [t \in Threads |-> IF t \in Own(p) THEN None ELSE Granted[t]]
    BY <2>1 DEF Granted
  <2>4. Showing' \subseteq Images
    BY DEF Showing
  <2>5. Service!Die(Own(p))
    BY <2>2, <2>3, <2>4 DEF Service!Die, Asked, Granted, Showing
  <2> QED BY <2>1, <2>5 DEF Service!Next
<1>6. CASE ForeignUmount
  BY <1>0, <1>6 DEF ForeignUmount, threadVars
<1>7. CASE UNCHANGED vars
  BY <1>0, <1>7 DEF vars, threadVars
<1> QED BY <1>1, <1>2, <1>3, <1>4, <1>5, <1>6, <1>7, WorkRefines DEF Next

\* Threads, caches, commands and deaths implement a service that grants an image
\* only while a read-only mount shows it, and refuses otherwise
\* (mount_disk_image).
THEOREM Served ==
  ASSUME IsFiniteSet(Images)
  PROVE  Spec => Service!Safety
<1>1. Init => Service!Init
  <2> SUFFICES ASSUME Init PROVE Service!Init
    OBVIOUS
  <2>1. \A t \in Threads : phase[t] = "idle"
    BY DEF Init
  <2>2. Asked = [t \in Threads |-> None] /\ Granted = [t \in Threads |-> None]
    BY <2>1 DEF Asked, Granted, Working
  <2>3. Showing \subseteq Images
    BY DEF Showing
  <2> QED BY <2>2, <2>3 DEF Service!Init, Asked, Granted, Showing
<1>2. Init => MountInv
  BY MountStart
<1>3. MountInv /\ [Next]_vars => [Service!Next]_Service!vars
  BY StepRefines
<1> QED BY <1>1, <1>2, <1>3, MountStep, PTL DEF Spec, Service!Safety
-----------------------------------------------------------------------------
(***************************************************************************)
(* While processes come one after the other and their commands behave      *)
(* (smooth), nothing is mounted at Root(e) or Ewf(e) twice, an attempt     *)
(* starts from an empty place, and what the cache of the one process keeps *)
(* stays mounted.  The invariant, clause by clause:                        *)
(*   Host     what is mounted where, and each place at most once;          *)
(*   Turns    one process, whose threads work only while it is up;         *)
(*   Numbers  starts are told apart, and what an exited one left behind;   *)
(*   Standing where each thread stands, the place it works on;             *)
(*   Kept     what a cache keeps is mounted;                               *)
(*   Owned    what the running process mounted is in its cache, or is in   *)
(*            the hands of a thread that will keep it or take it down.     *)
(***************************************************************************)
Known == {m \in Placed :
            \/ m.kind \in {"loop", "guest"} /\ m.at = Root(m.of) /\ m.ro
            \/ m.kind = "ewf" /\ m.at = Ewf(m.of) /\ m.ro
            \/ m.kind = "operator" /\ m.at = Operators(m.of) /\ m.by = 0}

Listed(tab) == {tab[i] : i \in DOMAIN tab}
Has(tab, at) == \E m \in Listed(tab) : m.at = at
Lone(tab) == \A i, j \in DOMAIN tab :
               tab[i].kind # "operator" /\ tab[i].at = tab[j].at => i = j

Host == table \in Seq(Known) /\ Lone(table)

Turns ==
  /\ life \in [Procs -> {"down", "sweeping", "up", "exiting"}]
  /\ \A p, q \in Procs : life[p] # "down" /\ life[q] # "down" => p = q
  /\ \A t \in Threads : life[Proc(t)] # "up" => phase[t] = "idle"
  /\ \A p \in Procs : life[p] \in {"down", "sweeping"} => \A e \in Images : mounted[p][e] = None

Numbers ==
  /\ left \subseteq 1 .. starts
  /\ \A p \in Procs : life[p] # "down" => run[p] \in (1 .. starts) \ left
  /\ \A m \in Listed(table) : m.by <= starts
  /\ \A m \in Listed(table) : m.by \in left => m.kind = "ewf" /\ ~ setup.asRoot

\* The phases in which nothing is mounted at the root of the image.
Attempt == {"clean_ewf", "ewf", "loop", "fallback", "guest", "raise"}
Stands(t) ==
  LET e == image[t]  p == Proc(t) IN
  /\ phase[t] \in Attempt \cup {"clean_root", "verify"} => ~ Covered(e) /\ mounted[p][e] = None
  /\ phase[t] \in Attempt => ~ Has(table, Root(e))
  /\ phase[t] = "ewf" => ~ Has(table, Ewf(e))
  /\ phase[t] = "verify" => Has(table, Root(e))
  /\ phase[t] = "using" => \/ path[t] = Root(e) /\ mounted[p][e] = Root(e)
                           \/ path[t] = Operators(e) /\ Has(table, Operators(e))
Standing == \A t \in Threads : Stands(t)

Keeps(p, e) == mounted[p][e] = Root(e) => ~ Covered(e) /\ Has(table, Root(e))
Kept == \A p \in Procs, e \in Images : Keeps(p, e)

Owns(p, m) ==
  /\ m.at = Root(m.of) =>
       \/ mounted[p][m.of] = Root(m.of)
       \/ \E t \in Own(p) : image[t] = m.of /\ phase[t] = "verify"
  /\ m.at = Ewf(m.of) /\ setup.asRoot =>
       /\ m.of \in ewfs[p]
       /\ \/ mounted[p][m.of] = Root(m.of)
          \/ \E t \in Own(p) : image[t] = m.of /\ phase[t] \in {"loop", "verify", "fallback"}
Owned == \A p \in Procs, m \in Listed(table) : life[p] # "down" /\ m.by = run[p] => Owns(p, m)

SmoothInv == smooth => Host /\ Turns /\ Numbers /\ Standing /\ Kept /\ Owned

-----------------------------------------------------------------------------
(* Places and entries. *)

LEMMA PathsApart ==
  ASSUME NEW e \in Images, NEW f \in Images
  PROVE  /\ Root(e) # Ewf(f) /\ Root(e) # Operators(f) /\ Ewf(e) # Operators(f)
         /\ Root(e) = Root(f) => e = f
         /\ Ewf(e) = Ewf(f) => e = f
         /\ Root(e) # None /\ Operators(e) # None
<1>1. /\ Root(e)[1] = "root" /\ Root(e)[2] = Short[e] /\ Ewf(e)[1] = "ewf" /\ Ewf(e)[2] = Short[e]
      /\ Root(f)[1] = "root" /\ Root(f)[2] = Short[f] /\ Ewf(f)[1] = "ewf" /\ Ewf(f)[2] = Short[f]
      /\ Operators(e)[1] = "operator" /\ Operators(f)[1] = "operator"
  BY DEF Root, Ewf, Operators
<1>2. Short[e] = Short[f] => e = f
  BY ShortIsInjective
<1>3. Root(e) # Ewf(f) /\ Root(e) # Operators(f) /\ Ewf(e) # Operators(f)
  BY <1>1
<1>4. (Root(e) = Root(f) => e = f) /\ (Ewf(e) = Ewf(f) => e = f)
  BY <1>1, <1>2
<1> QED BY <1>3, <1>4, PathsOfImages, NoPathIsNone

\* The places of two entries of one image, and of two images.
LEMMA KnownPlace ==
  ASSUME NEW m \in Known
  PROVE  /\ m.of \in Images /\ m.by \in Nat
         /\ m.at \in {Root(m.of), Ewf(m.of), Operators(m.of)}
         /\ m.kind = "ewf" <=> m.at = Ewf(m.of)
         /\ m.kind = "operator" <=> m.at = Operators(m.of)
         /\ m.kind = "operator" => m.by = 0
         /\ m.kind = "loop" => m.at = Root(m.of)
         /\ m.kind # "operator" => m.ro
<1>1. m.of \in Images /\ m.by \in Nat /\ m.kind \in {"ewf", "loop", "guest", "operator"}
  BY DEF Known, Placed, Mount
<1>2. Root(m.of) # Ewf(m.of) /\ Root(m.of) # Operators(m.of) /\ Ewf(m.of) # Operators(m.of)
  BY <1>1, PathsApart
<1> QED BY <1>1, <1>2 DEF Known

LEMMA ListedKnown ==
  ASSUME NEW tab \in Seq(Known), NEW m \in Listed(tab)
  PROVE  m \in Known
  BY DEF Listed

LEMMA MountedHas ==
  ASSUME NEW at
  PROVE  Mounted(at) <=> Has(table, at)
  BY DEF Mounted, Entries, Has, Listed

\* Without(tab, i) has the entries of tab but one, each where it was or before.
LEMMA WithoutEntries ==
  ASSUME NEW S, NEW tab \in Seq(S), NEW i \in DOMAIN tab
  PROVE  LET k(j) == IF j < i THEN j ELSE j + 1 IN
         /\ \A j \in DOMAIN Without(tab, i) :
              k(j) \in DOMAIN tab \ {i} /\ Without(tab, i)[j] = tab[k(j)]
         /\ \A h \in DOMAIN tab \ {i} : \E j \in DOMAIN Without(tab, i) : k(j) = h
<1> DEFINE k(j) == IF j < i THEN j ELSE j + 1
<1>1. PICK n \in Nat : n = Len(tab) /\ DOMAIN tab = 1 .. n /\ i \in 1 .. n /\ n >= 1
  OBVIOUS
<1>2. DOMAIN Without(tab, i) = 1 .. n - 1
  BY <1>1 DEF Without
<1>3. ASSUME NEW j \in 1 .. n - 1
      PROVE  k(j) \in DOMAIN tab \ {i} /\ Without(tab, i)[j] = tab[k(j)]
  <2>1. Without(tab, i)[j] = IF j < i THEN tab[j] ELSE tab[j + 1]
    BY <1>1 DEF Without
  <2>2. k(j) \in 1 .. n /\ k(j) # i
    BY <1>1
  <2> QED BY <1>1, <2>1, <2>2
<1>4. ASSUME NEW h \in (1 .. n) \ {i} PROVE \E j \in 1 .. n - 1 : k(j) = h
  <2>1. CASE h < i
    <3>1. h \in 1 .. n - 1 /\ k(h) = h
      BY <1>1, <2>1
    <3> QED BY <3>1
  <2>2. CASE h > i
    <3>1. h - 1 \in 1 .. n - 1 /\ k(h - 1) = h
      BY <1>1, <2>2
    <3> QED BY <3>1
  <2> QED BY <1>1, <2>1, <2>2
<1> QED BY <1>1, <1>2, <1>3, <1>4

\* new has entries of tab only, and still something at each place but at.
Shrinks(tab, new, S) ==
  /\ new \in Seq(Known) /\ Lone(new)
  /\ Listed(new) \subseteq Listed(tab)
  /\ \A at : Has(tab, at) /\ at \notin S => Has(new, at)

LEMMA ShrinksNot ==
  ASSUME NEW tab \in Seq(Known), Lone(tab), NEW S
  PROVE  Shrinks(tab, tab, S)
  BY DEF Shrinks

LEMMA ShrinksOn ==
  ASSUME NEW tab, NEW two, NEW three, NEW S, NEW T,
         Shrinks(tab, two, S), Shrinks(two, three, T), S \subseteq T
  PROVE  Shrinks(tab, three, T)
  BY DEF Shrinks

LEMMA PeeledShrinks ==
  ASSUME NEW tab \in Seq(Known), Lone(tab), NEW at
  PROVE  Shrinks(tab, Peeled(tab, at), {at})
<1> DEFINE here == {i \in DOMAIN tab : tab[i].at = at}
           top == CHOOSE i \in here : \A j \in here : j <= i
<1>1. CASE \E i \in here : (\A j \in here : j <= i) /\ ~ Busy(tab, i)
  <2>1. top \in here
    BY <1>1
  <2>2. Peeled(tab, at) = Without(tab, top)
    BY <1>1 DEF Peeled
  <2>3. top \in DOMAIN tab /\ tab[top].at = at
    BY <2>1
  <2> DEFINE k(j) == IF j < top THEN j ELSE j + 1
  <2> HIDE DEF top
  <2>4. /\ \A j \in DOMAIN Without(tab, top) :
             k(j) \in DOMAIN tab \ {top} /\ Without(tab, top)[j] = tab[k(j)]
        /\ \A h \in DOMAIN tab \ {top} : \E j \in DOMAIN Without(tab, top) : k(j) = h
    BY <2>3, WithoutEntries
  <2>5. Without(tab, top) \in Seq(Known)
    BY <2>3, WithoutType
  <2>6. \A i, j \in DOMAIN Without(tab, top) : k(i) = k(j) => i = j
    <3>1. DOMAIN Without(tab, top) \subseteq Int /\ top \in Int
      BY <2>3, <2>5
    <3> QED BY <3>1
  <2>7. Lone(Without(tab, top))
    <3> HIDE DEF k
    <3> QED BY <2>4, <2>6 DEF Lone
  <2>8. Listed(Without(tab, top)) \subseteq Listed(tab)
    <3> HIDE DEF k
    <3> QED BY <2>4 DEF Listed
  <2>9. ASSUME NEW a, Has(tab, a), a # at PROVE Has(Without(tab, top), a)
    <3> HIDE DEF k
    <3>1. PICK h \in DOMAIN tab : tab[h].at = a
      BY <2>9 DEF Has, Listed
    <3>2. PICK j \in DOMAIN Without(tab, top) : k(j) = h
      BY <2>3, <2>4, <2>9, <3>1
    <3>3. Without(tab, top)[j].at = a
      BY <2>4, <3>1, <3>2
    <3> QED BY <3>3 DEF Has, Listed
  <2> QED BY <2>2, <2>5, <2>7, <2>8, <2>9 DEF Shrinks
<1>2. CASE ~ \E i \in here : (\A j \in here : j <= i) /\ ~ Busy(tab, i)
  <2>1. Peeled(tab, at) = tab
    BY <1>2 DEF Peeled
  <2> QED BY <2>1, ShrinksNot
<1> QED BY <1>1, <1>2

\* One umount frees a place that is not the operator's, unless a loop device
\* needs it.
LEMMA PeeledClears ==
  ASSUME NEW tab \in Seq(Known), Lone(tab), NEW e \in Images, NEW at \in {Root(e), Ewf(e)},
         at = Ewf(e) => ~ Has(tab, Root(e))
  PROVE  ~ Has(Peeled(tab, at), at)
<1> DEFINE here == {i \in DOMAIN tab : tab[i].at = at}
           top == CHOOSE i \in here : \A j \in here : j <= i
<1>0. \A f \in Images : at # Operators(f)
  BY PathsApart
<1>1. CASE here = {}
  <2>1. Peeled(tab, at) = tab
    BY <1>1 DEF Peeled
  <2> QED BY <1>1, <2>1 DEF Has, Listed
<1>2. ASSUME NEW i \in here PROVE ~ Has(Peeled(tab, at), at)
  <2>1. \A h \in DOMAIN tab : tab[h] \in Known
    OBVIOUS
  <2>2. tab[i].kind # "operator" /\ tab[i].of \in Images
    BY <1>0, <2>1, KnownPlace
  <2>3. \A j \in here : i = j
    BY <2>2 DEF Lone
  <2>4. ~ Busy(tab, i)
    <3> SUFFICES ASSUME tab[i].kind = "ewf", NEW j \in DOMAIN tab, tab[j].kind = "loop",
                        tab[j].of = tab[i].of
                 PROVE  FALSE
      BY DEF Busy
    <3>1. at = Ewf(tab[i].of) /\ tab[j].at = Root(tab[i].of)
      BY <2>1, KnownPlace
    <3>2. tab[i].of = e /\ at = Ewf(e)
      BY <2>2, <3>1, PathsApart
    <3> QED BY <3>1, <3>2 DEF Has, Listed
  <2>5. i \in Int
    OBVIOUS
  <2>6. (\A j \in here : j <= i) /\ top = i
    BY <2>3, <2>5
  <2>7. Peeled(tab, at) = Without(tab, i)
    <3> HIDE DEF top
    <3> QED BY <2>4, <2>6 DEF Peeled, top
  <2>8. \A j \in DOMAIN Without(tab, i) : \E h \in DOMAIN tab \ {i} : Without(tab, i)[j] = tab[h]
    BY WithoutEntries
  <2> QED BY <2>3, <2>7, <2>8 DEF Has, Listed
<1> QED BY <1>1, <1>2

\* A command mounts at a place that is free.
LEMMA Grows ==
  ASSUME NEW tab \in Seq(Known), Lone(tab), NEW m \in Known, ~ Has(tab, m.at)
  PROVE  /\ Append(tab, m) \in Seq(Known) /\ Lone(Append(tab, m))
         /\ Listed(Append(tab, m)) = Listed(tab) \cup {m}
<1>1. PICK n \in Nat : n = Len(tab) /\ DOMAIN tab = 1 .. n
  OBVIOUS
<1>2. /\ DOMAIN Append(tab, m) = 1 .. n + 1 /\ Append(tab, m)[n + 1] = m
      /\ \A i \in 1 .. n : Append(tab, m)[i] = tab[i]
  BY <1>1
<1>3. \A i \in 1 .. n + 1 : i \in 1 .. n \/ i = n + 1
  BY <1>1
<1>4. \A i \in 1 .. n : tab[i].at # m.at
  BY <1>1 DEF Has, Listed
<1>5. Lone(Append(tab, m))
  BY <1>1, <1>2, <1>3, <1>4 DEF Lone
<1>6. \A i \in 1 .. n : i \in 1 .. n + 1
  BY <1>1
<1>7. n + 1 \in 1 .. n + 1
  BY <1>1
<1>8. Listed(Append(tab, m)) = Listed(tab) \cup {m}
  BY <1>1, <1>2, <1>3, <1>6, <1>7 DEF Listed
<1> QED BY <1>5, <1>8

-----------------------------------------------------------------------------
(* What commands do while they behave. *)

Smooth == Host /\ Turns /\ Numbers /\ Standing /\ Kept /\ Owned

LEMMA RootShownReadOnly ==
  ASSUME Host, NEW e \in Images, Has(table, Root(e))
  PROVE  ReadOnly(Root(e))
<1>1. PICK i \in DOMAIN table : table[i].at = Root(e)
  BY DEF Has, Listed
<1>2. \A j \in DOMAIN table : table[j] \in Known
  BY DEF Host
<1>3. table[i].ro /\ table[i].kind # "operator"
  BY <1>1, <1>2, KnownPlace, PathsApart
<1>4. \A j \in Entries(Root(e)) : i = j
  BY <1>1, <1>3 DEF Entries, Host, Lone
<1>5. i \in Int
  BY DEF Host
<1> QED BY <1>1, <1>3, <1>4, <1>5 DEF ReadOnly, Entries

LEMMA ForceSmooth ==
  ASSUME Host, NEW at, ForceUnmount(at), smooth'
  PROVE  /\ Shrinks(table, table', {at})
         /\ \A e \in Images : at \in {Root(e), Ewf(e)} /\ (at = Ewf(e) => ~ Has(table, Root(e)))
                                => ~ Has(table', at)
<1> DEFINE one == Peeled(table, at)
           two == Peeled(one, at)
           three == Peeled(two, at)
<1>1. table' = three
  BY DEF ForceUnmount, Misbehave
<1>2. Shrinks(table, one, {at})
  BY PeeledShrinks DEF Host
<1>3. Shrinks(one, two, {at})
  BY <1>2, PeeledShrinks DEF Shrinks
<1>4. Shrinks(two, three, {at})
  BY <1>3, PeeledShrinks DEF Shrinks
<1>5. Shrinks(table, three, {at})
  <2> HIDE DEF one, two, three
  <2>1. Shrinks(table, two, {at})
    BY <1>2, <1>3, ShrinksOn
  <2> QED BY <1>4, <2>1, ShrinksOn
<1>6. ASSUME NEW e \in Images, at \in {Root(e), Ewf(e)}, at = Ewf(e) => ~ Has(table, Root(e))
      PROVE  ~ Has(three, at)
  <2>1. ~ Has(one, at)
    BY <1>6, PeeledClears DEF Host
  <2> HIDE DEF one, two, three
  <2> QED BY <1>3, <1>4, <2>1 DEF Shrinks, Has
<1> QED BY <1>1, <1>5, <1>6

LEMMA DismantleSmooth ==
  ASSUME Host, NEW p \in Procs, NEW e \in Images, NEW at \in {Root(e), Operators(e)},
         Dismantle(p, e, at), smooth'
  PROVE  /\ Shrinks(table, table', {Root(e), Ewf(e), at})
         /\ at = Root(e) => /\ ~ Has(table', Root(e))
                            /\ e \in ewfs[p] /\ setup.asRoot => ~ Has(table', Ewf(e))
<1> DEFINE S == {Root(e), Ewf(e), at}
           one == IF e \in guests[p] /\ GuestOn(table, Root(e)) THEN Peeled(table, Root(e)) ELSE table
           two == Peeled(one, at)
           three == IF e \in ewfs[p] /\ setup.asRoot THEN Peeled(two, Ewf(e)) ELSE two
<1>1. table' = three
  BY DEF Dismantle, Misbehave, Dismantled
<1>2. Shrinks(table, one, S)
  BY PeeledShrinks, ShrinksNot DEF Host, Shrinks
<1>3. Shrinks(one, two, {at})
  BY <1>2, PeeledShrinks DEF Shrinks
<1>4. Shrinks(table, two, S)
  <2> HIDE DEF one, two
  <2>1. Shrinks(one, two, S)
    BY <1>3 DEF Shrinks
  <2> QED BY <1>2, <2>1, ShrinksOn
<1>5. Shrinks(two, three, {Ewf(e)})
  <2> HIDE DEF two
  <2> QED BY <1>4, PeeledShrinks, ShrinksNot DEF Shrinks
<1>6. Shrinks(table, three, S)
  <2> HIDE DEF two, three
  <2>1. Shrinks(two, three, S)
    BY <1>5 DEF Shrinks
  <2> QED BY <1>4, <2>1, ShrinksOn
<1>7. ASSUME at = Root(e)
      PROVE  ~ Has(three, Root(e)) /\ (e \in ewfs[p] /\ setup.asRoot => ~ Has(three, Ewf(e)))
  <2>1. Root(e) # Ewf(e)
    BY PathsApart
  <2>2. one \in Seq(Known) /\ Lone(one)
    <3> HIDE DEF one
    <3> QED BY <1>2 DEF Shrinks
  <2>3. ~ Has(two, Root(e))
    <3> HIDE DEF one
    <3> QED BY <1>7, <2>1, <2>2, PeeledClears
  <2>4. two \in Seq(Known) /\ Lone(two)
    <3> HIDE DEF two
    <3> QED BY <1>4 DEF Shrinks
  <2> HIDE DEF two
  <2>5. ~ Has(three, Root(e))
    <3> HIDE DEF three
    <3> QED BY <1>5, <2>3 DEF Shrinks, Has
  <2>6. e \in ewfs[p] /\ setup.asRoot => ~ Has(three, Ewf(e))
    BY <2>3, <2>4, PeeledClears
  <2> QED BY <2>5, <2>6
<1> HIDE DEF three
<1> QED BY <1>1, <1>6, <1>7

LEMMA NewIsKnown ==
  ASSUME MountInv, NEW t \in Threads, phase[t] \in {"ewf", "loop", "guest"}
  PROVE  /\ New(t) \in Known
         /\ New(t).of = image[t] /\ New(t).by = run[Proc(t)] /\ New(t).kind = phase[t]
         /\ New(t).at = IF phase[t] = "ewf" THEN Ewf(image[t]) ELSE Root(image[t])
<1>1. New(t) \in Placed
  BY NewIsPlaced
<1>2. PICK m : m = New(t)
  OBVIOUS
<1>3. m = [at |-> Target(t), of |-> image[t], kind |-> phase[t], ro |-> TRUE, by |-> run[Proc(t)]]
  BY <1>2 DEF New
<1>4. /\ m.of = image[t] /\ m.by = run[Proc(t)] /\ m.kind = phase[t] /\ m.ro
      /\ m.at = IF phase[t] = "ewf" THEN Ewf(image[t]) ELSE Root(image[t])
  BY <1>3 DEF Target
<1> QED BY <1>1, <1>2, <1>4 DEF Known

\* A thread mounts at its free target.
LEMMA CommandSmooth ==
  ASSUME MountInv, Host, NEW t \in Threads, phase[t] \in {"ewf", "loop", "guest"},
         ~ Has(table, New(t).at), NEW works, NEW fails, Command(t, works, fails), smooth'
  PROVE  \/ /\ Goto(t, works) /\ table' \in Seq(Known) /\ Lone(table')
            /\ Listed(table') = Listed(table) \cup {New(t)}
         \/ Goto(t, fails) /\ table' = table
<1>1. table \in Seq(Known) /\ Lone(table)
  BY DEF Host
<1>2. \/ Goto(t, works) /\ table' = Append(table, New(t))
      \/ Goto(t, fails) /\ table' = table
  BY DEF Command, Misbehave
<1> QED BY <1>1, <1>2, NewIsKnown, Grows

-----------------------------------------------------------------------------
(* What a step of a thread under its lock leaves alone. *)

Frame(t) ==
  /\ UNCHANGED <<image, setup, life, run, left, starts>>
  /\ \A u \in Threads \ {t} : phase'[u] = phase[u] /\ path'[u] = path[u]
  /\ \A q \in Procs, f \in Images : ~ (q = Proc(t) /\ f = image[t]) =>
       mounted'[q][f] = mounted[q][f] /\ (f \in ewfs'[q] <=> f \in ewfs[q])

\* Owns for the image of a thread that holds its lock.
OwnsNow(t, m) ==
  LET e == image[t]  p == Proc(t) IN
  /\ m.at = Root(e) => mounted[p][e] = Root(e) \/ phase[t] = "verify"
  /\ m.at = Ewf(e) /\ setup.asRoot =>
       e \in ewfs[p] /\ (mounted[p][e] = Root(e) \/ phase[t] \in {"loop", "verify", "fallback"})

LEMMA Alone ==
  ASSUME MountInv, NEW t \in Threads, NEW u \in Threads, phase[t] \notin Outside,
         phase[u] \notin Outside, Proc(u) = Proc(t), image[u] = image[t]
  PROVE  u = t
  BY DEF MountInv, Locks

LEMMA OwnsHere ==
  ASSUME MountInv, Smooth, NEW t \in Threads, phase[t] \notin Outside,
         NEW m \in Listed(table), m.of = image[t], m.by = run[Proc(t)]
  PROVE  OwnsNow(t, m)
<1>1. Proc(t) \in Procs /\ life[Proc(t)] = "up"
  BY ProcsAssumption DEF Smooth, Turns, Outside, Proc
<1>2. Owns(Proc(t), m)
  BY <1>1 DEF Smooth, Owned
<1>3. \A u \in Own(Proc(t)) : image[u] = image[t] /\ phase[u] \notin Outside => u = t
  BY Alone DEF Own, Proc
<1> QED BY <1>2, <1>3 DEF Owns, OwnsNow, Outside

LEMMA WorkHolds ==
  ASSUME MountInv, Smooth, NEW t \in Threads, phase[t] \notin Outside, Frame(t),
         mounted[Proc(t)][image[t]] = Root(image[t]) => mounted'[Proc(t)][image[t]] = Root(image[t]),
         table' \in Seq(Known), Lone(table'),
         \A at : Has(table, at) /\ at \notin {Root(image[t]), Ewf(image[t])} => Has(table', at),
         \A m \in Listed(table') :
            \/ m \in Listed(table)
            \/ /\ m.of = image[t] /\ m.by = run[Proc(t)]
               /\ m.at \in {Root(image[t]), Ewf(image[t])},
         Stands(t)', Keeps(Proc(t), image[t])',
         \A m \in Listed(table') : m.of = image[t] /\ m.by = run[Proc(t)] => OwnsNow(t, m)'
  PROVE  Smooth'
<1> DEFINE e == image[t]
           p == Proc(t)
<1>1. /\ e \in Images /\ p \in Procs /\ life[p] = "up" /\ run[p] \in (1 .. starts) \ left
      /\ \A q \in Procs : life[q] # "down" => q = p
      /\ \A u \in Threads : Proc(u) \in Procs /\ image[u] \in Images
  BY ProcsAssumption DEF Smooth, Turns, Numbers, Outside, Proc, MountInv, Locks
<1>2. /\ image' = image /\ setup' = setup /\ life' = life /\ run' = run /\ left' = left
      /\ starts' = starts
  BY DEF Frame
<1>3. Host'
  BY DEF Host
<1>4. Turns'
  <2>1. \A u \in Threads : life[Proc(u)] # "up" => phase'[u] = "idle"
    BY <1>1 DEF Frame, Smooth, Turns
  <2>2. \A q \in Procs : life[q] \in {"down", "sweeping"} => \A f \in Images : mounted'[q][f] = None
    BY <1>1 DEF Frame, Smooth, Turns
  <2> QED BY <1>2, <2>1, <2>2 DEF Smooth, Turns, Proc
<1>5. Numbers'
  <2>1. \A m \in Listed(table') : m.by <= starts /\
           (m.by \in left => m.kind = "ewf" /\ ~ setup.asRoot)
    <3> TAKE m \in Listed(table')
    <3>1. CASE m \in Listed(table)
      BY <3>1 DEF Smooth, Numbers
    <3>2. CASE m.by = run[p]
      <4>1. run[p] <= starts /\ run[p] \notin left
        BY <1>1
      <4> QED BY <3>2, <4>1
    <3> QED BY <3>1, <3>2
  <2> QED BY <1>2, <2>1 DEF Smooth, Numbers
<1>6. ASSUME NEW at, at \notin {Root(e), Ewf(e)} PROVE Has(table', at) <=> Has(table, at)
  BY <1>6 DEF Has
<1>7. ASSUME NEW f \in Images, f # e
      PROVE  Root(f) \notin {Root(e), Ewf(e)} /\ Ewf(f) \notin {Root(e), Ewf(e)}
  BY <1>1, <1>7, PathsApart
<1>8. Standing'
  <2> SUFFICES ASSUME NEW u \in Threads, u # t PROVE Stands(u)'
    BY DEF Standing
  <2> DEFINE f == image[u]
             q == Proc(u)
  <2>1. /\ phase'[u] = phase[u] /\ path'[u] = path[u] /\ image'[u] = f
    BY <1>2 DEF Frame
  <2>2. CASE q # p
    <3>1. phase'[u] = "idle"
      BY <1>1, <2>1, <2>2 DEF Smooth, Turns
    <3> QED BY <3>1 DEF Stands, Attempt
  <2>3. CASE q = p /\ f # e
    <3>1. Stands(u) /\ f \in Images /\ q \in Procs
      BY <1>1 DEF Smooth, Standing
    <3>2. mounted'[q][f] = mounted[q][f]
      BY <2>3, <3>1 DEF Frame
    <3>3. /\ Has(table', Root(f)) <=> Has(table, Root(f))
          /\ Has(table', Ewf(f)) <=> Has(table, Ewf(f))
          /\ Has(table', Operators(f)) <=> Has(table, Operators(f))
      <4>1. Operators(f) \notin {Root(e), Ewf(e)}
        BY <1>1, <3>1, PathsApart
      <4> QED BY <1>6, <1>7, <2>3, <3>1, <4>1
    <3> QED BY <1>2, <2>1, <3>1, <3>2, <3>3 DEF Stands, Proc, Covered, Root, Ewf, Operators
  <2>4. CASE q = p /\ f = e
    <3>1. Stands(u) /\ phase[u] \in Outside
      BY <2>4, Alone DEF Smooth, Standing
    <3>2. Has(table', Operators(e)) <=> Has(table, Operators(e))
      <4>1. Operators(e) \notin {Root(e), Ewf(e)}
        BY <1>1, PathsApart
      <4> QED BY <1>6, <4>1
    <3>3. phase[u] = "using" => \/ path'[u] = Root(f)' /\ mounted'[q][f] = Root(f)'
                                \/ path'[u] = Operators(f)' /\ Has(table', Operators(f)')
      BY <2>1, <2>4, <3>1, <3>2 DEF Stands, Root, Operators
    <3> QED BY <1>2, <2>1, <3>1, <3>3 DEF Stands, Outside, Attempt, Proc
  <2> QED BY <2>2, <2>3, <2>4
<1>9. Kept'
  <2> SUFFICES ASSUME NEW q \in Procs, NEW f \in Images, ~ (q = p /\ f = e) PROVE Keeps(q, f)'
    BY <1>2 DEF Kept
  <2>1. Keeps(q, f) /\ mounted'[q][f] = mounted[q][f]
    BY DEF Smooth, Kept, Frame
  <2>2. CASE f # e
    <3>1. Has(table', Root(f)) <=> Has(table, Root(f))
      BY <1>6, <1>7, <2>2
    <3> QED BY <1>2, <2>1, <3>1 DEF Keeps, Covered, Root
  <2>3. CASE f = e
    <3>1. life[q] = "down" /\ Root(f) # None
      BY <1>1, <2>3, PathsApart DEF Smooth, Turns
    <3>2. mounted'[q][f] # Root(f)
      BY <2>1, <3>1 DEF Smooth, Turns
    <3> QED BY <3>2 DEF Keeps, Root
  <2> QED BY <2>2, <2>3
<1>10. Owned'
  <2> SUFFICES ASSUME NEW m \in Listed(table'), m.by = run[p] PROVE Owns(p, m)'
    BY <1>1, <1>2 DEF Owned
  <2>1. CASE m.of = e
    <3>1. OwnsNow(t, m)'
      BY <2>1
    <3>2. t \in Own(p)
      BY DEF Own, Proc
    <3> QED BY <1>2, <2>1, <3>1, <3>2 DEF OwnsNow, Owns, Proc, Own, Root, Ewf
  <2>2. CASE m.of # e
    <3>1. m \in Listed(table) /\ m.of \in Images
      BY <2>2, ListedKnown, KnownPlace
    <3>2. Owns(p, m)
      BY <1>1, <3>1 DEF Smooth, Owned
    <3>3. mounted'[p][m.of] = mounted[p][m.of] /\ (m.of \in ewfs'[p] <=> m.of \in ewfs[p])
      BY <1>1, <2>2, <3>1 DEF Frame
    <3>4. \A u \in Own(p) : image[u] = m.of => phase'[u] = phase[u]
      BY <2>2 DEF Frame, Own
    <3> QED BY <1>2, <3>2, <3>3, <3>4 DEF Owns, Own, Root, Ewf
  <2> QED BY <2>1, <2>2
<1> QED BY <1>3, <1>4, <1>5, <1>8, <1>9, <1>10 DEF Smooth

-----------------------------------------------------------------------------
(* The steps of a call. *)

LEMMA WorkFrame ==
  ASSUME MountInv, NEW t \in Threads, Work(t)
  PROVE  Frame(t) /\ phase[t] \notin Outside
<1>0. /\ image[t] \in Images /\ Proc(t) \in Procs
      /\ phase \in [Threads -> Phases] /\ path \in [Threads -> Paths \cup {None}]
      /\ mounted \in [Procs -> [Images -> Paths \cup {None}]]
      /\ ewfs \in [Procs -> SUBSET Images]
  BY ProcsAssumption DEF MountInv, Locks, Caches, Proc
<1>1. CASE CheckCache(t)
  <2>1. /\ phase[t] = "cached" /\ UNCHANGED <<image, setup, procVars, ewfs>>
        /\ \E where : Goto(t, where)
        /\ mounted' = mounted \/ \E at : Keep(t, at)
        /\ path' = path \/ \E at : path' = [path EXCEPT ![t] = at]
    BY <1>1 DEF CheckCache, Serve
  <2> QED BY <1>0, <2>1 DEF Frame, Goto, Keep, procVars, Outside
<1>2. CASE Verify(t)
  <2>1. /\ phase[t] = "verify" /\ UNCHANGED <<image, setup, procVars, ewfs>>
        /\ \E where : Goto(t, where)
        /\ mounted' = mounted \/ \E at : Keep(t, at)
        /\ path' = path \/ \E at : path' = [path EXCEPT ![t] = at]
    BY <1>2 DEF Verify, Serve, cacheVars
  <2> QED BY <1>0, <2>1 DEF Frame, Goto, Keep, procVars, Outside
<1>3. CASE CleanRoot(t) \/ CleanEwf(t) \/ MountEwf(t) \/ MountLoop(t) \/ MountGuest(t)
             \/ Fallback(t) \/ Raise(t)
  <2>1. /\ phase[t] \notin Outside /\ UNCHANGED <<image, setup, path, mounted>>
        /\ UNCHANGED procVars /\ \E where : Goto(t, where)
    BY <1>3 DEF CleanRoot, CleanEwf, MountEwf, MountLoop, MountGuest, Fallback, Raise,
                Command, cacheVars, Outside
  <2>2. \/ ewfs' = ewfs
        \/ ewfs' = [ewfs EXCEPT ![Proc(t)] = @ \cup {image[t]}]
        \/ ewfs' = [ewfs EXCEPT ![Proc(t)] = @ \ {image[t]}]
    BY <1>3 DEF CleanRoot, CleanEwf, MountEwf, MountLoop, MountGuest, Fallback, Raise,
                Dismantle, cacheVars
  <2> QED BY <1>0, <2>1, <2>2 DEF Frame, Goto, procVars
<1> QED BY <1>1, <1>2, <1>3 DEF Work

LEMMA CheckCacheHolds ==
  ASSUME MountInv, Smooth, NEW t \in Threads, CheckCache(t)
  PROVE  Smooth'
<1> DEFINE e == image[t]
           p == Proc(t)
<1>1. /\ e \in Images /\ p \in Procs /\ phase[t] = "cached"
      /\ phase \in [Threads -> Phases] /\ path \in [Threads -> Paths \cup {None}]
      /\ mounted \in [Procs -> [Images -> Paths \cup {None}]]
      /\ mounted[p][e] \in {Root(e), Operators(e), None}
  BY ProcsAssumption DEF MountInv, Locks, Caches, Proc, CheckCache
<1>2. Frame(t) /\ phase[t] \notin Outside /\ table' = table /\ ewfs' = ewfs
  BY WorkFrame DEF Work, CheckCache, Serve, cacheVars
<1>3. Host /\ Keeps(p, e)
  BY <1>1 DEF Smooth, Kept
<1>4. mounted[p][e] = Root(e) => Has(table, Root(e)) /\ ReadOnly(Root(e)) /\ ~ Covered(e)
  BY <1>1, <1>3, RootShownReadOnly DEF Keeps
<1>5. Root(e) # None /\ Operators(e) # None /\ Root(e) # Operators(e)
  BY <1>1, PathsApart
<1>6. ASSUME NEW at, ReadOnly(at) PROVE Has(table, at)
  BY <1>6 DEF ReadOnly, Entries, Has, Listed
<1>7. \/ /\ Serve(t, Root(e)) /\ mounted' = mounted /\ mounted[p][e] = Root(e)
      \/ /\ Serve(t, Operators(e)) /\ Has(table, Operators(e)) /\ mounted[p][e] # Root(e)
         /\ mounted' = mounted \/ Keep(t, Operators(e))
      \/ /\ Goto(t, "idle") /\ Keep(t, None) /\ mounted[p][e] # Root(e)
      \/ /\ Goto(t, "clean_root") /\ Keep(t, None) /\ mounted[p][e] # Root(e) /\ ~ Covered(e)
  BY <1>1, <1>4, <1>5, <1>6 DEF CheckCache
<1>8. mounted[p][e] = Root(e) <=> mounted'[p][e] = Root(e)
  BY <1>1, <1>5, <1>7 DEF Keep
<1>9. image' = image /\ setup' = setup
  BY <1>2 DEF Frame
<1>10. Keeps(p, e)'
  BY <1>2, <1>3, <1>8, <1>9 DEF Keeps, Covered, Root
<1>11. Stands(t)'
  <2>1. CASE Serve(t, Root(e)) /\ mounted' = mounted /\ mounted[p][e] = Root(e)
    <3>1. phase'[t] = "using" /\ path'[t] = Root(e)
      BY <1>1, <2>1 DEF Serve, Goto
    <3> QED BY <1>9, <2>1, <3>1 DEF Stands, Attempt, Root, Proc
  <2>2. CASE Serve(t, Operators(e)) /\ Has(table, Operators(e))
    <3>1. phase'[t] = "using" /\ path'[t] = Operators(e)
      BY <1>1, <2>2 DEF Serve, Goto
    <3> QED BY <1>2, <1>9, <2>2, <3>1 DEF Stands, Attempt, Operators, Proc
  <2>3. CASE Goto(t, "idle")
    <3>1. phase'[t] = "idle"
      BY <1>1, <2>3 DEF Goto
    <3> QED BY <3>1 DEF Stands, Attempt
  <2>4. CASE Goto(t, "clean_root") /\ Keep(t, None) /\ ~ Covered(e)
    <3>1. phase'[t] = "clean_root" /\ mounted'[p][e] = None
      BY <1>1, <2>4 DEF Goto, Keep
    <3> QED BY <1>9, <2>4, <3>1 DEF Stands, Attempt, Proc, Covered
  <2> QED BY <1>7, <2>1, <2>2, <2>3, <2>4
<1>12. ASSUME NEW m \in Listed(table'), m.of = e, m.by = run[p] PROVE OwnsNow(t, m)'
  <2>1. OwnsNow(t, m)
    BY <1>2, <1>12, OwnsHere
  <2> QED BY <1>1, <1>2, <1>8, <1>9, <2>1 DEF OwnsNow, Proc, Root, Ewf
<1> QED BY <1>2, <1>3, <1>8, <1>10, <1>11, <1>12, WorkHolds DEF Host

LEMMA VerifyHolds ==
  ASSUME MountInv, Smooth, NEW t \in Threads, Verify(t)
  PROVE  Smooth'
<1> DEFINE e == image[t]
           p == Proc(t)
<1>1. /\ e \in Images /\ p \in Procs /\ phase[t] = "verify"
      /\ phase \in [Threads -> Phases] /\ path \in [Threads -> Paths \cup {None}]
      /\ mounted \in [Procs -> [Images -> Paths \cup {None}]]
  BY ProcsAssumption DEF MountInv, Locks, Caches, Proc, Verify
<1>2. Frame(t) /\ phase[t] \notin Outside /\ table' = table /\ ewfs' = ewfs
  BY WorkFrame DEF Work, Verify, Serve, cacheVars
<1>3. Host /\ Has(table, Root(e)) /\ ~ Covered(e)
  BY <1>1 DEF Smooth, Standing, Stands
<1>4. Serve(t, Root(e)) /\ Keep(t, Root(e))
  BY <1>1, <1>3, RootShownReadOnly DEF Verify
<1>5. mounted'[p][e] = Root(e) /\ phase'[t] = "using" /\ path'[t] = Root(e)
  BY <1>1, <1>4 DEF Serve, Goto, Keep
<1>6. image' = image /\ setup' = setup
  BY <1>2 DEF Frame
<1>7. Keeps(p, e)'
  BY <1>2, <1>3, <1>6 DEF Keeps, Covered, Root
<1>8. Stands(t)'
  BY <1>5, <1>6 DEF Stands, Attempt, Root, Proc
<1>9. ASSUME NEW m \in Listed(table'), m.of = e, m.by = run[p] PROVE OwnsNow(t, m)'
  <2>1. OwnsNow(t, m)
    BY <1>2, <1>9, OwnsHere
  <2> QED BY <1>1, <1>2, <1>5, <1>6, <2>1 DEF OwnsNow, Proc, Root, Ewf
<1> QED BY <1>2, <1>3, <1>5, <1>7, <1>8, <1>9, WorkHolds DEF Host

\* What a step inside an attempt does to the table and the thread.
AttemptStep(t) ==
  LET e == image[t]  p == Proc(t) IN
  /\ table' \in Seq(Known) /\ Lone(table')
  /\ \A at : Has(table, at) /\ at \notin {Root(e), Ewf(e)} => Has(table', at)
  /\ \A m \in Listed(table') : m \in Listed(table) \/ (m = New(t) /\ phase[t] \in {"ewf", "loop", "guest"})
  /\ phase'[t] \in Attempt => ~ Has(table', Root(e))
  /\ phase'[t] = "ewf" => ~ Has(table', Ewf(e))
  /\ phase'[t] = "verify" => Has(table', Root(e))
  /\ phase'[t] \in Attempt \cup {"verify", "idle"}
  /\ \A m \in Listed(table') : m.of = e /\ m.by = run[p] =>
       /\ m.at = Root(e) => phase'[t] = "verify"
       /\ m.at = Ewf(e) /\ setup.asRoot =>
            e \in ewfs'[p] /\ phase'[t] \in {"loop", "verify", "fallback"}

\* The cache has nothing of the image while an attempt is made.
LEMMA AttemptHolds ==
  ASSUME MountInv, Smooth, NEW t \in Threads, Work(t), mounted' = mounted,
         phase[t] \in Attempt \cup {"clean_root"}, AttemptStep(t)
  PROVE  Smooth'
<1> DEFINE e == image[t]
           p == Proc(t)
<1>1. e \in Images /\ p \in Procs /\ ~ Covered(e) /\ mounted[p][e] = None
  BY ProcsAssumption DEF MountInv, Locks, Proc, Smooth, Standing, Stands
<1>2. Frame(t) /\ phase[t] \notin Outside /\ image' = image /\ setup' = setup
  BY WorkFrame DEF Frame
<1>3. Root(e) # None
  BY <1>1, PathsApart
<1>4. Keeps(p, e)'
  BY <1>1, <1>2, <1>3 DEF Keeps, Root
<1>5. Stands(t)'
  BY <1>1, <1>2 DEF AttemptStep, Stands, Attempt, Root, Ewf, Proc, Covered
<1>6. \A m \in Listed(table') :
        \/ m \in Listed(table)
        \/ m.of = e /\ m.by = run[p] /\ m.at \in {Root(e), Ewf(e)}
  BY NewIsKnown DEF AttemptStep
<1>7. ASSUME NEW m \in Listed(table'), m.of = e, m.by = run[p] PROVE OwnsNow(t, m)'
  BY <1>2, <1>7 DEF AttemptStep, OwnsNow, Proc, Root, Ewf
<1> QED BY <1>1, <1>2, <1>3, <1>4, <1>5, <1>6, <1>7, WorkHolds DEF AttemptStep

\* What the running process has mounted of the image, seen from an attempt.
LEMMA AttemptOwns ==
  ASSUME MountInv, Smooth, NEW t \in Threads, phase[t] \in Attempt \cup {"clean_root"},
         NEW m \in Listed(table), m.of = image[t], m.by = run[Proc(t)]
  PROVE  /\ m.at # Root(image[t])
         /\ m.at = Ewf(image[t]) /\ setup.asRoot =>
              image[t] \in ewfs[Proc(t)] /\ phase[t] \in {"loop", "fallback"}
<1>1. image[t] \in Images /\ mounted[Proc(t)][image[t]] = None
  BY DEF MountInv, Locks, Smooth, Standing, Stands
<1>2. OwnsNow(t, m)
  BY OwnsHere DEF Attempt, Outside
<1>3. Root(image[t]) # None
  BY <1>1, PathsApart
<1> QED BY <1>1, <1>2, <1>3 DEF OwnsNow, Attempt

LEMMA CleanHolds ==
  ASSUME MountInv, Smooth, NEW t \in Threads, CleanRoot(t) \/ CleanEwf(t), smooth'
  PROVE  Smooth'
<1> DEFINE e == image[t]
           p == Proc(t)
<1>0. /\ e \in Images /\ p \in Procs /\ setup.format[e] \in Formats
      /\ phase \in [Threads -> Phases] /\ Host
  BY ProcsAssumption, SetupsAssumption DEF MountInv, Tables, Locks, Proc, Smooth
<1>1. First(e) \in {"ewf", "loop", "guest"}
  BY <1>0 DEF First, Formats
<1>2. PICK at \in {Root(e), Ewf(e)} :
        /\ phase[t] = IF at = Root(e) THEN "clean_root" ELSE "clean_ewf"
        /\ ForceUnmount(at) /\ mounted' = mounted /\ ewfs' = ewfs
        /\ phase'[t] = IF at = Root(e) THEN "clean_ewf" ELSE First(e)
  <2>1. Root(e) # Ewf(e)
    BY <1>0, PathsApart
  <2> QED BY <1>0, <2>1 DEF CleanRoot, CleanEwf, Goto, cacheVars
<1>3. phase[t] \in Attempt \cup {"clean_root"} /\ phase'[t] \in Attempt /\ Work(t)
  BY <1>1, <1>2 DEF Attempt, Work
<1>4. at = Ewf(e) => ~ Has(table, Root(e))
  <2>1. Root(e) # Ewf(e)
    BY <1>0, PathsApart
  <2> QED BY <1>2, <2>1 DEF Smooth, Standing, Stands, Attempt
<1>5. Shrinks(table, table', {at}) /\ ~ Has(table', at)
  BY <1>0, <1>2, <1>4, ForceSmooth
<1>6. ~ Has(table', Root(e))
  BY <1>4, <1>5 DEF Shrinks, Has
<1>7. phase'[t] = "ewf" => ~ Has(table', Ewf(e))
  BY <1>2, <1>5
<1>8. phase'[t] # "verify"
  BY <1>3 DEF Attempt
<1>9. \A m \in Listed(table') : m.of = e /\ m.by = run[p] =>
         m.at # Root(e) /\ ~ (m.at = Ewf(e) /\ setup.asRoot)
  BY <1>2, <1>3, <1>5, AttemptOwns DEF Shrinks
<1>10. /\ table' \in Seq(Known) /\ Lone(table') /\ \A m \in Listed(table') : m \in Listed(table)
       /\ \A a : Has(table, a) /\ a \notin {Root(e), Ewf(e)} => Has(table', a)
  BY <1>5 DEF Shrinks
<1>11. phase'[t] \in Attempt \cup {"verify", "idle"}
  BY <1>3
<1>12. AttemptStep(t)
  BY <1>6, <1>7, <1>8, <1>9, <1>10, <1>11 DEF AttemptStep
<1> QED BY <1>2, <1>3, <1>12, AttemptHolds

LEMMA CommandHolds ==
  ASSUME MountInv, Smooth, NEW t \in Threads, MountEwf(t) \/ MountLoop(t) \/ MountGuest(t), smooth'
  PROVE  Smooth'
<1> DEFINE e == image[t]
           p == Proc(t)
           m0 == New(t)
<1>0. /\ e \in Images /\ p \in Procs /\ phase \in [Threads -> Phases] /\ Host
      /\ ewfs \in [Procs -> SUBSET Images] /\ Stands(t)
  BY ProcsAssumption DEF MountInv, Locks, Caches, Proc, Smooth, Standing
<1>1. /\ Work(t) /\ mounted' = mounted /\ phase[t] \in {"ewf", "loop", "guest"}
      /\ Command(t, IF phase[t] = "ewf" THEN "loop" ELSE "verify",
                    IF phase[t] = "guest" THEN "raise" ELSE "fallback")
      /\ ewfs' = IF phase[t] = "ewf" /\ phase'[t] = "loop"
                 THEN [ewfs EXCEPT ![p] = @ \cup {e}] ELSE ewfs
  BY DEF Work, MountEwf, MountLoop, MountGuest, cacheVars
<1>2. /\ m0 \in Known /\ m0.of = e /\ m0.by = run[p]
      /\ m0.at = IF phase[t] = "ewf" THEN Ewf(e) ELSE Root(e)
  BY <1>1, NewIsKnown
<1>3. ~ Has(table, Root(e)) /\ (phase[t] = "ewf" => ~ Has(table, Ewf(e)))
      /\ phase[t] \in Attempt
  BY <1>0, <1>1 DEF Stands, Attempt
<1>4. ~ Has(table, m0.at)
  BY <1>2, <1>3
<1>5. \/ /\ Goto(t, IF phase[t] = "ewf" THEN "loop" ELSE "verify")
         /\ table' \in Seq(Known) /\ Lone(table') /\ Listed(table') = Listed(table) \cup {m0}
      \/ Goto(t, IF phase[t] = "guest" THEN "raise" ELSE "fallback") /\ table' = table
  <2> HIDE DEF m0
  <2> QED BY <1>0, <1>1, <1>4, CommandSmooth DEF m0
<1>6. /\ Root(e) # Ewf(e)
      /\ \A m \in Listed(table) : m.of = e /\ m.by = run[p] =>
           /\ m.at # Root(e)
           /\ m.at = Ewf(e) /\ setup.asRoot => e \in ewfs[p] /\ phase[t] \in {"loop", "fallback"}
  BY <1>0, <1>3, AttemptOwns, PathsApart
<1>7. CASE /\ Goto(t, IF phase[t] = "ewf" THEN "loop" ELSE "verify")
           /\ table' \in Seq(Known) /\ Lone(table') /\ Listed(table') = Listed(table) \cup {m0}
  <2>1. phase'[t] = IF phase[t] = "ewf" THEN "loop" ELSE "verify"
    BY <1>0, <1>7 DEF Goto
  <2>2. \A at : Has(table', at) <=> Has(table, at) \/ at = m0.at
    BY <1>7 DEF Has
  <2>3. phase'[t] \in Attempt \cup {"verify", "idle"} /\ phase'[t] # "ewf"
    BY <2>1 DEF Attempt
  <2>4. phase'[t] \in Attempt => ~ Has(table', Root(e))
    BY <1>2, <1>3, <1>6, <2>1, <2>2 DEF Attempt
  <2>5. phase'[t] = "verify" => Has(table', Root(e))
    BY <1>2, <2>1, <2>2
  <2>6. ASSUME NEW m \in Listed(table'), m.of = e, m.by = run[p]
        PROVE  /\ m.at = Root(e) => phase'[t] = "verify"
               /\ m.at = Ewf(e) /\ setup.asRoot =>
                    e \in ewfs'[p] /\ phase'[t] \in {"loop", "verify", "fallback"}
    <3>1. CASE m = m0
      <4>1. phase[t] = "ewf" => e \in ewfs'[p]
        BY <1>0, <1>1, <2>1
      <4> QED BY <1>2, <1>6, <2>1, <3>1, <4>1
    <3>2. CASE m \in Listed(table)
      <4>1. e \in ewfs[p] => e \in ewfs'[p]
        BY <1>0, <1>1
      <4> QED BY <1>1, <1>6, <2>1, <2>6, <3>2, <4>1
    <3> QED BY <1>7, <3>1, <3>2
  <2>7. AttemptStep(t)
    BY <1>1, <1>7, <2>2, <2>3, <2>4, <2>5, <2>6 DEF AttemptStep
  <2> QED BY <1>1, <1>3, <2>7, AttemptHolds
<1>8. CASE Goto(t, IF phase[t] = "guest" THEN "raise" ELSE "fallback") /\ table' = table
  <2>1. phase'[t] = IF phase[t] = "guest" THEN "raise" ELSE "fallback"
    BY <1>0, <1>8 DEF Goto
  <2>2. phase'[t] \in Attempt /\ phase'[t] \notin {"ewf", "verify", "loop"} /\ ewfs' = ewfs
    BY <1>1, <2>1 DEF Attempt
  <2>3. \A m \in Listed(table) : m.of = e /\ m.by = run[p] =>
           /\ m.at # Root(e)
           /\ m.at = Ewf(e) /\ setup.asRoot => e \in ewfs'[p] /\ phase'[t] = "fallback"
    BY <1>6, <2>1, <2>2
  <2>4. AttemptStep(t)
    BY <1>0, <1>3, <1>8, <2>2, <2>3 DEF AttemptStep, Host
  <2> QED BY <1>1, <1>3, <2>4, AttemptHolds
<1> QED BY <1>5, <1>7, <1>8

LEMMA TeardownHolds ==
  ASSUME MountInv, Smooth, NEW t \in Threads, Fallback(t) \/ Raise(t), smooth'
  PROVE  Smooth'
<1> DEFINE e == image[t]
           p == Proc(t)
<1>0. e \in Images /\ p \in Procs /\ phase \in [Threads -> Phases] /\ Host
  BY ProcsAssumption DEF MountInv, Locks, Proc, Smooth
<1>1. /\ Work(t) /\ mounted' = mounted /\ phase[t] \in {"fallback", "raise"}
      /\ Dismantle(p, e, Root(e)) /\ phase'[t] \in {"guest", "idle"}
  BY <1>0 DEF Work, Fallback, Raise, Goto
<1>2. /\ Shrinks(table, table', {Root(e), Ewf(e)})
      /\ ~ Has(table', Root(e))
      /\ e \in ewfs[p] /\ setup.asRoot => ~ Has(table', Ewf(e))
  <2> HIDE DEF e, p
  <2> QED BY <1>0, <1>1, DismantleSmooth DEF Shrinks
<1>3. phase[t] \in Attempt /\ phase'[t] \in Attempt \cup {"verify", "idle"}
      /\ phase'[t] \notin {"ewf", "verify"}
  BY <1>1 DEF Attempt
<1>4. \A m \in Listed(table') : m.of = e /\ m.by = run[p] =>
         m.at # Root(e) /\ ~ (m.at = Ewf(e) /\ setup.asRoot)
  <2>1. Listed(table') \subseteq Listed(table)
    BY <1>2 DEF Shrinks
  <2> QED BY <1>2, <1>3, <2>1, AttemptOwns DEF Has
<1>5. /\ table' \in Seq(Known) /\ Lone(table') /\ \A m \in Listed(table') : m \in Listed(table)
      /\ \A a : Has(table, a) /\ a \notin {Root(e), Ewf(e)} => Has(table', a)
  BY <1>2 DEF Shrinks
<1>6. AttemptStep(t)
  BY <1>1, <1>2, <1>3, <1>4, <1>5 DEF AttemptStep
<1> QED BY <1>1, <1>3, <1>6, AttemptHolds

LEMMA WorkSmooth ==
  ASSUME MountInv, Smooth, NEW t \in Threads, Work(t), smooth'
  PROVE  Smooth'
  BY CheckCacheHolds, VerifyHolds, CleanHolds, CommandHolds, TeardownHolds DEF Work

-----------------------------------------------------------------------------
(* The steps of threads outside a lock, and of processes. *)

LEMMA MovesHold ==
  ASSUME MountInv, Smooth, NEW t \in Threads,
         Take(t) \/ Finish(t) \/ \E e \in Images : Call(t, e)
  PROVE  Smooth'
<1>0. /\ Proc(t) \in Procs /\ phase \in [Threads -> Phases]
      /\ image \in [Threads -> Images] /\ path \in [Threads -> Paths \cup {None}]
  BY ProcsAssumption DEF MountInv, Locks, Proc
<1>1. /\ UNCHANGED <<setup, table, mounted, ewfs, life, run, left, starts>>
      /\ phase[t] \in Outside /\ phase'[t] \in {"idle", "wait", "cached"}
      /\ \A u \in Threads \ {t} :
           phase'[u] = phase[u] /\ path'[u] = path[u] /\ image'[u] = image[u]
      /\ phase[t] = "idle" => life[Proc(t)] = "up"
  BY <1>0 DEF Take, Finish, Call, Goto, procVars, cacheVars, Outside
<1>2. life[Proc(t)] = "up"
  BY <1>1 DEF Smooth, Turns
<1>3. Host' /\ Numbers' /\ Kept'
  BY <1>1 DEF Smooth, Host, Numbers, Kept, Keeps, Covered, Root
<1>4. Turns'
  BY <1>1, <1>2 DEF Smooth, Turns, Proc
<1>5. Standing'
  <2> SUFFICES ASSUME NEW u \in Threads PROVE Stands(u)'
    BY DEF Standing
  <2>1. CASE u = t
    BY <1>1, <2>1 DEF Stands, Attempt
  <2>2. CASE u # t
    BY <1>1, <2>2 DEF Smooth, Standing, Stands, Proc, Covered, Root, Ewf, Operators
  <2> QED BY <2>1, <2>2
<1>6. Owned'
  <2> SUFFICES ASSUME NEW p \in Procs, NEW m \in Listed(table), life[p] # "down", m.by = run[p]
               PROVE  Owns(p, m)'
    BY <1>1 DEF Owned
  <2>1. Owns(p, m)
    BY DEF Smooth, Owned
  <2>2. \A u \in Own(p) : phase[u] \in {"loop", "verify", "fallback"} =>
           phase'[u] = phase[u] /\ image'[u] = image[u]
    BY <1>1 DEF Own, Outside
  <2> QED BY <1>1, <2>1, <2>2 DEF Owns, Own, Root, Ewf
<1> QED BY <1>3, <1>4, <1>5, <1>6 DEF Smooth

LEMMA IdleStands ==
  ASSUME \A t \in Threads : phase'[t] = "idle"
  PROVE  Standing'
  BY DEF Standing, Stands, Attempt

\* Only one process is not down, and its threads are the ones that work.
LEMMA OneProcess ==
  ASSUME MountInv, Smooth, NEW p \in Procs, life[p] # "down"
  PROVE  /\ \A q \in Procs \ {p} : life[q] = "down" /\ \A e \in Images : mounted[q][e] = None
         /\ \A t \in Threads : Proc(t) \in Procs /\ (t \notin Own(p) => phase[t] = "idle")
         /\ life[p] # "up" => \A t \in Threads : phase[t] = "idle"
<1>1. \A t \in Threads : Proc(t) \in Procs
  BY ProcsAssumption DEF Proc
<1>2. \A q \in Procs \ {p} : life[q] = "down"
  BY DEF Smooth, Turns
<1> QED BY <1>1, <1>2 DEF Smooth, Turns, Own, Proc

LEMMA StartHolds ==
  ASSUME MountInv, Smooth, NEW p \in Procs, Start(p), smooth'
  PROVE  Smooth'
<1>1. /\ UNCHANGED <<setup, table, mounted, ewfs, phase, image, path, left>>
      /\ \A q \in Procs : life[q] = "down"
      /\ starts' = starts + 1 /\ starts \in Nat
      /\ run' = [run EXCEPT ![p] = starts + 1] /\ run \in [Procs -> 0 .. MaxStarts]
      /\ \E new \in {"up", "sweeping"} : life' = [life EXCEPT ![p] = new]
  <2>1. starts \in Nat /\ run \in [Procs -> 0 .. MaxStarts]
    BY BoundsAssumption DEF MountInv, Tables
  <2>2. \A q \in Procs : life[q] = "down"
    BY DEF Start
  <2>3. \/ life' = [life EXCEPT ![p] = "up"]
        \/ life' = [life EXCEPT ![p] = "sweeping"]
    BY DEF Start
  <2> QED BY <2>1, <2>2, <2>3 DEF Start, cacheVars, threadVars
<1>2. \A t \in Threads : Proc(t) \in Procs /\ phase[t] = "idle"
  BY <1>1, ProcsAssumption DEF Smooth, Turns, Proc
<1>3. \A q \in Procs, e \in Images : mounted[q][e] = None /\ mounted[q][e] # Root(e)
  BY <1>1, PathsApart DEF Smooth, Turns
<1>4. /\ life' \in [Procs -> {"down", "sweeping", "up", "exiting"}]
      /\ \A q \in Procs : life'[q] # "down" => q = p
  BY <1>1 DEF Smooth, Turns
<1>5. Turns'
  BY <1>1, <1>2, <1>3, <1>4 DEF Turns, Proc
<1>6. \A m \in Listed(table) : m.by \in Nat /\ m.by <= starts
  BY ListedKnown, KnownPlace DEF Smooth, Numbers, Host
<1>7. Numbers'
  <2>1. starts + 1 \in (1 .. starts') \ left /\ left \subseteq 1 .. starts'
    BY <1>1 DEF Smooth, Numbers
  <2>2. \A q \in Procs : life'[q] # "down" => run'[q] = starts + 1
    BY <1>1, <1>4
  <2>3. \A m \in Listed(table) : m.by <= starts'
    BY <1>1, <1>6
  <2> QED BY <1>1, <2>1, <2>2, <2>3 DEF Smooth, Numbers
<1>8. Owned'
  <2> SUFFICES ASSUME NEW q \in Procs, NEW m \in Listed(table), life'[q] # "down", m.by = run'[q]
               PROVE  FALSE
    BY <1>1 DEF Owned
  <2> QED BY <1>1, <1>4, <1>6
<1>9. Standing' /\ Kept' /\ Host'
  BY <1>1, <1>2, <1>3, IdleStands DEF Smooth, Kept, Keeps, Host, Root
<1> QED BY <1>5, <1>7, <1>8, <1>9 DEF Smooth

LEMMA SweepHolds ==
  ASSUME MountInv, Smooth, NEW p \in Procs, Sweep(p), smooth'
  PROVE  Smooth'
<1>1. /\ UNCHANGED <<setup, mounted, ewfs, phase, image, path, run, left, starts>>
      /\ life[p] = "sweeping"
      /\ \/ (\E at : ForceUnmount(at)) /\ life' = life
         \/ table' = table /\ life' = [life EXCEPT ![p] = "up"]
  BY DEF Sweep, cacheVars, threadVars
<1>2. /\ \A q \in Procs \ {p} : life[q] = "down"
      /\ \A t \in Threads : Proc(t) \in Procs /\ phase[t] = "idle"
  BY <1>1, OneProcess
<1>3. \A q \in Procs, e \in Images : mounted[q][e] = None /\ mounted[q][e] # Root(e)
  BY <1>1, <1>2, PathsApart DEF Smooth, Turns
<1>4. Host' /\ Listed(table') \subseteq Listed(table)
  BY <1>1, ForceSmooth DEF Smooth, Shrinks, Host
<1>5. Turns'
  <2>1. /\ life' \in [Procs -> {"down", "sweeping", "up", "exiting"}]
        /\ \A q \in Procs : life'[q] # "down" => q = p
    BY <1>1, <1>2 DEF Smooth, Turns
  <2> QED BY <1>1, <1>2, <1>3, <2>1 DEF Turns, Proc
<1>6. \A q \in Procs : life'[q] # "down" <=> life[q] # "down"
  BY <1>1 DEF Smooth, Turns
<1>7. Numbers'
  BY <1>1, <1>4, <1>6 DEF Smooth, Numbers
<1>8. Owned'
  <2> SUFFICES ASSUME NEW q \in Procs, NEW m \in Listed(table'), life[q] # "down", m.by = run[q]
               PROVE  Owns(q, m)'
    BY <1>1, <1>6 DEF Owned
  <2>1. Owns(q, m)
    BY <1>4 DEF Smooth, Owned
  <2> QED BY <1>1, <2>1 DEF Owns, Own, Root, Ewf
<1>9. Standing' /\ Kept'
  BY <1>1, <1>2, <1>3, IdleStands DEF Kept, Keeps, Root
<1> QED BY <1>4, <1>5, <1>7, <1>8, <1>9 DEF Smooth

LEMMA ExitHolds ==
  ASSUME MountInv, Smooth, NEW p \in Procs, Exit(p)
  PROVE  Smooth'
<1>1. /\ UNCHANGED <<setup, table, mounted, ewfs, phase, image, path, run, left, starts>>
      /\ life[p] = "up" /\ Quiet(p) /\ life' = [life EXCEPT ![p] = "exiting"]
  BY DEF Exit, cacheVars, threadVars
<1>2. /\ \A q \in Procs \ {p} : life[q] = "down"
      /\ \A t \in Threads : Proc(t) \in Procs /\ phase[t] = "idle"
  BY <1>1, OneProcess DEF Quiet
<1>3. /\ life' \in [Procs -> {"down", "sweeping", "up", "exiting"}]
      /\ \A q \in Procs : life'[q] # "down" <=> life[q] # "down"
      /\ \A q \in Procs : life'[q] \in {"down", "sweeping"} => life[q] \in {"down", "sweeping"}
  BY <1>1 DEF Smooth, Turns
<1>4. Turns'
  BY <1>1, <1>2, <1>3 DEF Smooth, Turns, Proc
<1>5. Host' /\ Numbers' /\ Kept'
  BY <1>1, <1>3 DEF Smooth, Host, Numbers, Kept, Keeps, Covered, Root
<1>6. Standing'
  BY <1>1, <1>2, IdleStands
<1>7. Owned'
  <2> SUFFICES ASSUME NEW q \in Procs, NEW m \in Listed(table), life[q] # "down", m.by = run[q]
               PROVE  Owns(q, m)'
    BY <1>1, <1>3 DEF Owned
  <2>1. Owns(q, m)
    BY DEF Smooth, Owned
  <2> QED BY <1>1, <2>1 DEF Owns, Own, Root, Ewf
<1> QED BY <1>4, <1>5, <1>6, <1>7 DEF Smooth

\* A process that is gone, with every thread idle: what is left to show is
\* the table.
LEMMA DownHolds ==
  ASSUME MountInv, Smooth, NEW p \in Procs, life[p] # "down", Forget(p),
         UNCHANGED <<setup, run, starts>>, \A t \in Threads : phase'[t] = "idle",
         Host', Numbers'
  PROVE  Smooth'
<1>1. /\ mounted' = [mounted EXCEPT ![p] = [e \in Images |-> None]]
      /\ life' = [life EXCEPT ![p] = "down"]
      /\ mounted \in [Procs -> [Images -> Paths \cup {None}]]
  BY DEF Forget, MountInv, Caches
<1>2. \A q \in Procs, e \in Images : mounted'[q][e] = None /\ mounted'[q][e] # Root(e)
  BY <1>1, OneProcess, PathsApart
<1>3. /\ life' \in [Procs -> {"down", "sweeping", "up", "exiting"}]
      /\ \A q \in Procs : life'[q] = "down"
  BY <1>1, OneProcess DEF Smooth, Turns
<1>4. Turns'
  BY <1>2, <1>3 DEF Turns
<1>5. Kept' /\ Owned' /\ Standing'
  BY <1>2, <1>3, IdleStands DEF Kept, Keeps, Owned, Root
<1> QED BY <1>4, <1>5 DEF Smooth

LEMMA ExitedHolds ==
  ASSUME MountInv, Smooth, NEW p \in Procs, Exited(p)
  PROVE  Smooth'
<1>1. /\ UNCHANGED <<setup, table, phase, image, run, starts>>
      /\ life[p] = "exiting" /\ Forget(p) /\ left' = left \cup {run[p]}
      /\ setup.mode = "env" \/ \A e \in Images : mounted[p][e] = None
  BY DEF Exited, threadVars
<1>2. \A t \in Threads : phase[t] = "idle"
  BY <1>1, OneProcess
<1>3. \A e \in Images : mounted[p][e] # Root(e)
  <2>1. CASE setup.mode = "env"
    BY <2>1 DEF Smooth, Kept, Keeps, Covered
  <2>2. CASE \A e \in Images : mounted[p][e] = None
    BY <2>2, PathsApart
  <2> QED BY <1>1, <2>1, <2>2
<1>4. run[p] \in 1 .. starts /\ left \subseteq 1 .. starts
  BY <1>1 DEF Smooth, Numbers
<1>5. ASSUME NEW m \in Listed(table), m.by = run[p] PROVE m.kind = "ewf" /\ ~ setup.asRoot
  <2>1. m \in Known
    BY ListedKnown DEF Smooth, Host
  <2>2. m.of \in Images /\ m.at \in {Root(m.of), Ewf(m.of), Operators(m.of)}
    BY <2>1, KnownPlace
  <2>3. Owns(p, m)
    BY <1>1, <1>5 DEF Smooth, Owned
  <2>4. m.at # Root(m.of) /\ ~ (m.at = Ewf(m.of) /\ setup.asRoot)
    BY <1>2, <1>3, <2>2, <2>3 DEF Owns, Own
  <2>5. m.at # Operators(m.of)
    BY <1>4, <1>5, <2>1, KnownPlace
  <2> QED BY <2>1, <2>2, <2>4, <2>5, KnownPlace
<1>6. \A q \in Procs : life'[q] = "down"
  BY <1>1, OneProcess DEF Forget, Smooth, Turns
<1>7. Numbers'
  BY <1>1, <1>4, <1>5, <1>6 DEF Smooth, Numbers
<1>8. Host'
  BY <1>1 DEF Smooth, Host
<1> QED BY <1>1, <1>2, <1>7, <1>8, DownHolds

LEMMA CrashHolds ==
  ASSUME MountInv, Smooth, NEW p \in Procs, Crash(p)
  PROVE  Smooth'
<1>1. /\ UNCHANGED <<setup, run, starts, left>> /\ life[p] # "down" /\ Forget(p)
      /\ phase' = [t \in Threads |-> IF t \in Own(p) THEN "idle" ELSE phase[t]]
      /\ \/ table' = table
         \/ \E t \in Own(p) : phase[t] \in {"ewf", "loop", "guest"} /\ table' = Append(table, New(t))
  BY DEF Crash
<1>2. \A t \in Threads : phase'[t] = "idle"
  BY <1>1, OneProcess
<1>3. \A q \in Procs : life'[q] = "down"
  BY <1>1, OneProcess DEF Forget, Smooth, Turns
<1>4. Host /\ Numbers /\ run[p] \in (1 .. starts) \ left
  BY <1>1 DEF Smooth, Numbers
<1>5. CASE table' = table
  <2>1. Host' /\ Numbers'
    BY <1>1, <1>3, <1>4, <1>5 DEF Host, Numbers
  <2> QED BY <1>1, <1>2, <2>1, DownHolds
<1>6. ASSUME NEW t \in Own(p), phase[t] \in {"ewf", "loop", "guest"}, table' = Append(table, New(t))
      PROVE  Smooth'
  <2>1. t \in Threads /\ Proc(t) = p /\ phase[t] \in Attempt
    BY <1>6 DEF Own, Proc, Attempt
  <2>2. New(t) \in Known /\ New(t).by = run[p] /\ ~ Has(table, New(t).at)
    BY <1>6, <2>1, NewIsKnown DEF Smooth, Standing, Stands
  <2>3. /\ table' \in Seq(Known) /\ Lone(table')
        /\ Listed(table') = Listed(table) \cup {New(t)}
    BY <1>4, <1>6, <2>2, Grows DEF Host
  <2>4. Host' /\ Numbers'
    <3>1. \A m \in Listed(table') :
             m.by <= starts /\ (m.by \in left => m.kind = "ewf" /\ ~ setup.asRoot)
      BY <1>4, <2>2, <2>3 DEF Numbers
    <3> QED BY <1>1, <1>3, <1>4, <2>3, <3>1 DEF Host, Numbers
  <2> QED BY <1>1, <1>2, <2>4, DownHolds
<1> QED BY <1>1, <1>5, <1>6

LEMMA UnmountHolds ==
  ASSUME MountInv, Smooth, NEW p \in Procs, NEW e \in Images, Unmount(p, e), smooth'
  PROVE  Smooth'
<1> DEFINE at == mounted[p][e]
<1>1. /\ UNCHANGED <<setup, phase, image, path, life, run, left, starts>>
      /\ life[p] = "exiting" /\ Dismantle(p, e, at)
      /\ mounted' = [mounted EXCEPT ![p][e] = None]
      /\ ewfs' = [ewfs EXCEPT ![p] = @ \ {e}]
      /\ at \in {Root(e), Operators(e)}
      /\ mounted \in [Procs -> [Images -> Paths \cup {None}]]
      /\ ewfs \in [Procs -> SUBSET Images]
  BY DEF Unmount, Dismantle, threadVars, procVars, MountInv, Caches
<1>2. \A t \in Threads : phase[t] = "idle"
  BY <1>1, OneProcess
<1>3. /\ Shrinks(table, table', {Root(e), Ewf(e), at})
      /\ at = Root(e) => /\ ~ Has(table', Root(e))
                         /\ e \in ewfs[p] /\ setup.asRoot => ~ Has(table', Ewf(e))
  <2> HIDE DEF at
  <2> QED BY <1>1, DismantleSmooth DEF Smooth
<1>4. Host' /\ Listed(table') \subseteq Listed(table)
  BY <1>3 DEF Shrinks, Host
<1>5. mounted'[p][e] = None /\ Root(e) # None /\ Root(e) # Operators(e)
  BY <1>1, PathsApart
<1>6. \A q \in Procs, f \in Images : ~ (q = p /\ f = e) =>
         mounted'[q][f] = mounted[q][f] /\ (f \in ewfs'[q] <=> f \in ewfs[q])
  BY <1>1
<1>7. Turns'
  BY <1>1, <1>5, <1>6 DEF Smooth, Turns, Proc
<1>8. Numbers'
  BY <1>1, <1>4 DEF Smooth, Numbers
<1>9. Standing'
  BY <1>1, <1>2, IdleStands
<1>10. Kept'
  <2> SUFFICES ASSUME NEW q \in Procs, NEW f \in Images, mounted'[q][f] = Root(f)
               PROVE  ~ Covered(f) /\ Has(table', Root(f))
    BY <1>1 DEF Kept, Keeps, Covered, Root
  <2>1. mounted[q][f] = Root(f) /\ ~ (q = p /\ f = e)
    BY <1>5, <1>6
  <2>2. ~ Covered(f) /\ Has(table, Root(f))
    BY <2>1 DEF Smooth, Kept, Keeps
  <2>3. q = p
    <3>1. Root(f) # None
      BY PathsApart
    <3> QED BY <1>1, <2>1, <3>1, OneProcess
  <2>4. Root(f) \notin {Root(e), Ewf(e), Operators(e)}
    BY <2>1, <2>3, PathsApart
  <2> QED BY <1>1, <1>3, <2>2, <2>4 DEF Shrinks
<1>11. Owned'
  <2> SUFFICES ASSUME NEW q \in Procs, NEW m \in Listed(table'), life[q] # "down", m.by = run[q]
               PROVE  Owns(q, m)'
    BY <1>1 DEF Owned
  <2>1. q = p /\ Owns(p, m) /\ m.of \in Images
    <3>1. q = p
      BY <1>1, OneProcess
    <3>2. m \in Listed(table) /\ m \in Known
      BY <1>4, ListedKnown DEF Host
    <3> QED BY <3>1, <3>2, KnownPlace DEF Smooth, Owned
  <2>2. CASE m.of # e
    BY <1>1, <1>2, <1>6, <2>1, <2>2 DEF Owns, Own, Root, Ewf
  <2>3. CASE m.of = e
    <3>1. m.at # Root(e) /\ ~ (m.at = Ewf(e) /\ setup.asRoot)
      <4>1. Has(table', m.at)
        BY DEF Has
      <4>2. m.at = Root(e) => at = Root(e)
        BY <1>2, <2>1, <2>3 DEF Owns, Own
      <4>3. m.at = Ewf(e) /\ setup.asRoot => at = Root(e) /\ e \in ewfs[p]
        BY <1>2, <2>1, <2>3 DEF Owns, Own
      <4> HIDE DEF at
      <4> QED BY <1>3, <4>1, <4>2, <4>3
    <3> QED BY <1>1, <2>1, <2>3, <3>1 DEF Owns, Root, Ewf
  <2> QED BY <2>2, <2>3
<1> QED BY <1>4, <1>7, <1>8, <1>9, <1>10, <1>11 DEF Smooth

-----------------------------------------------------------------------------
(* The theorem. *)

LEMMA SmoothStart ==
  ASSUME IsFiniteSet(Images), Init
  PROVE  SmoothInv
<1>1. MountInv
  BY MountStart
<1>2. \A m \in OperatorsMounts : m \in Known /\ m.kind = "operator" /\ m.by = 0
  <2> SUFFICES ASSUME NEW m \in OperatorsMounts
               PROVE  m \in Known /\ m.kind = "operator" /\ m.by = 0
    OBVIOUS
  <2>1. m \in Placed
    BY OperatorsFinite DEF Init
  <2>2. m.kind = "operator" /\ m.by = 0 /\ m.at = Operators(m.of)
    BY DEF OperatorsMounts
  <2> QED BY <2>1, <2>2 DEF Known
<1>3. PICK n \in Nat : table \in [1 .. n -> OperatorsMounts]
  BY OperatorsFinite DEF Init
<1>4. table \in [1 .. n -> Known] /\ \A i \in 1 .. n : table[i] \in OperatorsMounts
  BY <1>2, <1>3
<1>5. table \in Seq(Known) /\ DOMAIN table = 1 .. n
  BY <1>4, SeqDef
<1>6. Host
  BY <1>2, <1>4, <1>5 DEF Host, Lone
<1>7. \A m \in Listed(table) : m.by = 0
  BY <1>2, <1>4, <1>5 DEF Listed
<1>8. /\ \A p \in Procs : life[p] = "down" /\ life \in [Procs -> {"down"}]
      /\ \A t \in Threads : phase[t] = "idle"
      /\ left = {} /\ starts = 0
  BY DEF Init
<1>9. \A p \in Procs, e \in Images : mounted[p][e] = None /\ mounted[p][e] # Root(e)
  BY PathsApart DEF Init
<1>10. Turns
  BY <1>8, <1>9 DEF Init, Turns
<1>11. Numbers
  BY <1>7, <1>8 DEF Numbers
<1>12. Standing /\ Kept /\ Owned
  BY <1>8, <1>9 DEF Standing, Stands, Attempt, Kept, Keeps, Owned
<1> QED BY <1>6, <1>10, <1>11, <1>12 DEF SmoothInv

LEMMA SmoothStep ==
  ASSUME MountInv, SmoothInv, [Next]_vars
  PROVE  SmoothInv'
<1> SUFFICES ASSUME smooth' PROVE Smooth'
  BY DEF SmoothInv, Smooth
<1>1. CASE UNCHANGED vars
  <2>1. Smooth
    BY <1>1 DEF SmoothInv, Smooth, vars
  <2>2. UNCHANGED <<setup, table, mounted, ewfs, phase, image, path, life, run, left, starts>>
    BY <1>1 DEF vars, cacheVars, threadVars, procVars
  <2>3. Host' /\ Numbers' /\ Turns'
    BY <2>1, <2>2 DEF Smooth, Host, Numbers, Turns, Proc
  <2>4. Standing' /\ Kept'
    BY <2>1, <2>2 DEF Smooth, Standing, Stands, Kept, Keeps, Covered, Proc, Root, Ewf, Operators
  <2>5. Owned'
    <3> SUFFICES ASSUME NEW q \in Procs, NEW m \in Listed(table), life[q] # "down", m.by = run[q]
                 PROVE  Owns(q, m)'
      BY <2>2 DEF Owned
    <3>1. Owns(q, m)
      BY <2>1 DEF Smooth, Owned
    <3> QED BY <2>2, <3>1 DEF Owns, Own, Root, Ewf
  <2> QED BY <2>3, <2>4, <2>5 DEF Smooth
<1>2. CASE Next
  <2>1. smooth
    <3>1. ASSUME NEW at, ForceUnmount(at) PROVE smooth' => smooth
      BY <3>1 DEF ForceUnmount, Well, Misbehave
    <3>2. ASSUME NEW p, NEW e, NEW at, Dismantle(p, e, at) PROVE smooth' => smooth
      BY <3>2 DEF Dismantle, Well, Misbehave
    <3>3. ASSUME NEW t, NEW works, NEW fails, Command(t, works, fails) PROVE smooth' => smooth
      BY <3>3 DEF Command, Well, Misbehave
    <3>4. ASSUME NEW t \in Threads, Work(t) PROVE smooth' => smooth
      BY <3>1, <3>2, <3>3, <3>4 DEF Work, CheckCache, Serve, CleanRoot, CleanEwf, MountEwf,
            MountLoop, MountGuest, Fallback, Verify, Raise
    <3>5. ASSUME NEW p \in Procs,
                 Start(p) \/ Sweep(p) \/ Exit(p) \/ Exited(p) \/ Crash(p)
                   \/ \E e \in Images : Unmount(p, e)
          PROVE  smooth' => smooth
      BY <3>1, <3>2, <3>5 DEF Start, Sweep, Exit, Exited, Crash, Unmount
    <3>6. ForeignUmount => ~ smooth'
      BY DEF ForeignUmount, Misbehave
    <3> QED BY <1>2, <3>4, <3>5, <3>6 DEF Next, Take, Finish, Call
  <2>2. Smooth
    BY <2>1 DEF SmoothInv, Smooth
  <2>3. ~ ForeignUmount
    BY DEF ForeignUmount, Misbehave
  <2> QED BY <1>2, <2>2, <2>3, WorkSmooth, MovesHold, StartHolds, SweepHolds, ExitHolds,
             ExitedHolds, CrashHolds, UnmountHolds DEF Next
<1> QED BY <1>1, <1>2

LEMMA SmoothInvariant ==
  ASSUME IsFiniteSet(Images)
  PROVE  Spec => [](MountInv /\ SmoothInv)
<1>1. Init => MountInv /\ SmoothInv
  BY MountStart, SmoothStart
<1>2. MountInv /\ SmoothInv /\ [Next]_vars => (MountInv /\ SmoothInv)'
  BY MountStep, SmoothStep
<1> QED BY <1>1, <1>2, PTL DEF Spec

\* While processes come one after the other and their commands behave, a mount
\* command never meets a mount (_MOUNT_LOCKS, _clean_stale_mount_for).
THEOREM NeverMeets ==
  ASSUME IsFiniteSet(Images)
  PROVE  Spec => []MountsMeetNothing
<1>1. MountInv /\ SmoothInv => MountsMeetNothing
  <2> SUFFICES ASSUME MountInv, SmoothInv, smooth, NEW t \in Threads,
                      phase[t] \in {"ewf", "loop", "guest"}
               PROVE  ~ Mounted(Target(t))
    BY DEF MountsMeetNothing
  <2>1. Stands(t) /\ phase[t] \in Attempt
    BY DEF SmoothInv, Standing, Attempt
  <2> QED BY <2>1, MountedHas DEF Stands, Target
<1> QED BY <1>1, SmoothInvariant, PTL

\* ... what a tool works on stays mounted under it, whatever other threads of
\* the process mount, give up or tear down meanwhile (mount_disk_image).
THEOREM StaysMounted ==
  ASSUME IsFiniteSet(Images)
  PROVE  Spec => []UseHolds
<1>1. MountInv /\ SmoothInv => UseHolds
  <2> SUFFICES ASSUME MountInv, SmoothInv, smooth, NEW t \in Threads, phase[t] = "using"
               PROVE  Shows(path[t], image[t])
    BY DEF UseHolds
  <2>1. image[t] \in Images /\ Proc(t) \in Procs /\ Stands(t) /\ Kept
    BY ProcsAssumption DEF SmoothInv, Standing, MountInv, Locks, Proc
  <2>2. path[t] \in {Root(image[t]), Operators(image[t])} /\ Has(table, path[t])
    BY <2>1 DEF Stands, Kept, Keeps
  <2> QED BY <2>1, <2>2, MountedHas, HomeShows DEF MountInv
<1> QED BY <1>1, SmoothInvariant, PTL

\* ... and a process that exits in order leaves none of its mounts, but
\* ewfmounts it has not the rights to unmount (_atexit_cleanup_all_mounts).
THEOREM ExitCleans ==
  ASSUME IsFiniteSet(Images)
  PROVE  Spec => []ExitUnmounts
<1>1. SmoothInv => ExitUnmounts
  BY DEF SmoothInv, Numbers, ExitUnmounts, Listed
<1> QED BY <1>1, SmoothInvariant, PTL

-----------------------------------------------------------------------------
(* Nobody waits for ever: the safety part of the service's liveness.       *)

\* What is left of the call of thread t once it has the lock of its image.
StepsToEnd ==
  [cached |-> 9, clean_root |-> 8, clean_ewf |-> 7, ewf |-> 6, loop |-> 5,
   fallback |-> 4, guest |-> 3, verify |-> 2, raise |-> 1, idle |-> 0, using |-> 0]

\* Who waits for the lock of an image waits for a thread of its own process that
\* works, for the same image, and that waits for nothing.
WaitsForWorker ==
  \A t \in Threads : phase[t] = "wait" =>
    LET u == lock[Proc(t)][image[t]] IN
    u # None =>
      /\ u \in Threads \ {t} /\ image[u] = image[t] /\ Proc(u) = Proc(t)
      /\ phase[u] \notin {"idle", "wait", "using"}

\* The lock goes to threads of its process only.
LocksAtHome ==
  \A p \in Procs, e \in Images : lock[p][e] # None =>
    lock[p][e] \in Threads /\ Proc(lock[p][e]) = p

\* Every step of a call that has the lock brings it closer to its answer, whatever
\* its commands do: it never mounts, falls back or verifies twice.
CallsShorten ==
  \A t \in Threads : Work(t) => StepsToEnd[phase'[t]] < StepsToEnd[phase[t]]

LEMMA AtHomeStep == ASSUME MountInv, LocksAtHome, [Next]_vars PROVE LocksAtHome'
<1>1. CASE UNCHANGED lock
  BY <1>1 DEF LocksAtHome, Proc
<1>2. ASSUME NEW t \in Threads, lock' = [lock EXCEPT ![Proc(t)][image[t]] = t]
      PROVE  LocksAtHome'
  BY <1>2, ProcsAssumption DEF LocksAtHome, MountInv, Locks, Proc
<1>3. ASSUME NEW t \in Threads, lock' = [lock EXCEPT ![Proc(t)][image[t]] = None]
      PROVE  LocksAtHome'
  BY <1>3, ProcsAssumption DEF LocksAtHome, MountInv, Locks, Proc
<1>4. ASSUME NEW p \in Procs, lock' = [lock EXCEPT ![p] = [e \in Images |-> None]]
      PROVE  LocksAtHome'
  BY <1>4 DEF LocksAtHome, MountInv, Locks, Proc
<1>5. ASSUME NEW t \in Threads, Take(t) \/ Work(t) \/ Finish(t) \/ \E e \in Images : Call(t, e)
      PROVE  \/ UNCHANGED lock
             \/ lock' = [lock EXCEPT ![Proc(t)][image[t]] = t]
             \/ lock' = [lock EXCEPT ![Proc(t)][image[t]] = None]
  BY <1>5 DEF Take, Work, Finish, Call, CheckCache, CleanRoot, CleanEwf, MountEwf, MountLoop,
              MountGuest, Fallback, Verify, Raise, Serve, Free
<1>6. ASSUME NEW p \in Procs, Start(p) \/ Sweep(p) \/ Exit(p) \/ Exited(p)
                              \/ \E e \in Images : Unmount(p, e)
      PROVE  UNCHANGED lock
  BY <1>6 DEF Start, Sweep, Exit, Exited, Unmount, threadVars
<1>7. ASSUME NEW p \in Procs, Crash(p)
      PROVE  lock' = [lock EXCEPT ![p] = [e \in Images |-> None]]
  BY <1>7 DEF Crash
<1>8. ForeignUmount \/ UNCHANGED vars => UNCHANGED lock
  BY DEF ForeignUmount, threadVars, vars
<1> QED BY <1>1, <1>2, <1>3, <1>4, <1>5, <1>6, <1>7, <1>8 DEF Next

LEMMA HolderWorks == MountInv /\ LocksAtHome => WaitsForWorker
<1> SUFFICES ASSUME MountInv, LocksAtHome, NEW t \in Threads, phase[t] = "wait",
                    NEW u, u = lock[Proc(t)][image[t]], u # None
             PROVE  /\ u \in Threads \ {t} /\ image[u] = image[t] /\ Proc(u) = Proc(t)
                    /\ phase[u] \notin {"idle", "wait", "using"}
  BY DEF WaitsForWorker
<1>1. Proc(t) \in Procs /\ image[t] \in Images
  BY ProcsAssumption DEF MountInv, Locks, Proc
<1>2. u \in Threads /\ Proc(u) = Proc(t)
  BY <1>1 DEF LocksAtHome
<1>3. image[t] = image[u] /\ phase[u] \notin Outside
  BY <1>1, <1>2 DEF MountInv, Locks
<1> QED BY <1>2, <1>3 DEF Outside

LEMMA WorkShortens ==
  ASSUME MountInv, NEW t \in Threads, Work(t)
  PROVE  StepsToEnd[phase'[t]] < StepsToEnd[phase[t]]
<1>0. phase \in [Threads -> Phases]
  BY DEF MountInv, Locks
<1>1. CASE CheckCache(t)
  <2>1. phase[t] = "cached" /\ \E x \in {"using", "idle", "clean_root"} :
          phase' = [phase EXCEPT ![t] = x]
    BY <1>1 DEF CheckCache, Serve, Goto
  <2> QED BY <1>0, <2>1 DEF StepsToEnd
<1>2. CASE CleanRoot(t)
  BY <1>0, <1>2 DEF CleanRoot, Goto, StepsToEnd
<1>3. CASE CleanEwf(t)
  <2>1. phase[t] = "clean_ewf" /\ phase' = [phase EXCEPT ![t] = First(image[t])]
    BY <1>3 DEF CleanEwf, Goto
  <2>2. First(image[t]) \in {"ewf", "loop", "guest"}
    <3>1. setup.format[image[t]] \in Formats
      BY SetupsAssumption DEF MountInv, Tables, Locks
    <3> QED BY <3>1 DEF First, Formats
  <2> QED BY <1>0, <2>1, <2>2 DEF StepsToEnd
<1>4. CASE MountEwf(t)
  <2>1. phase[t] = "ewf" /\ \E x \in {"loop", "fallback"} : phase' = [phase EXCEPT ![t] = x]
    BY <1>4 DEF MountEwf, Command, Goto
  <2> QED BY <1>0, <2>1 DEF StepsToEnd
<1>5. CASE MountLoop(t)
  <2>1. phase[t] = "loop" /\ \E x \in {"verify", "fallback"} : phase' = [phase EXCEPT ![t] = x]
    BY <1>5 DEF MountLoop, Command, Goto
  <2> QED BY <1>0, <2>1 DEF StepsToEnd
<1>6. CASE MountGuest(t)
  <2>1. phase[t] = "guest" /\ \E x \in {"verify", "raise"} : phase' = [phase EXCEPT ![t] = x]
    BY <1>6 DEF MountGuest, Command, Goto
  <2> QED BY <1>0, <2>1 DEF StepsToEnd
<1>7. CASE Fallback(t)
  BY <1>0, <1>7 DEF Fallback, Goto, StepsToEnd
<1>8. CASE Verify(t)
  <2>1. phase[t] = "verify" /\ \E x \in {"using", "raise"} : phase' = [phase EXCEPT ![t] = x]
    BY <1>8 DEF Verify, Serve, Goto
  <2> QED BY <1>0, <2>1 DEF StepsToEnd
<1>9. CASE Raise(t)
  BY <1>0, <1>9 DEF Raise, Goto, StepsToEnd
<1> QED BY <1>1, <1>2, <1>3, <1>4, <1>5, <1>6, <1>7, <1>8, <1>9 DEF Work

\* A call waits at most for the calls for its image in its own process, one at a
\* time, and each of those has nine steps at most before it gives the lock up,
\* whatever its commands do and whoever dies (_MOUNT_LOCKS, mount_disk_image).
THEOREM NobodyStuck ==
  ASSUME IsFiniteSet(Images)
  PROVE  Spec => []WaitsForWorker /\ [][CallsShorten]_vars
<1>1. Init => LocksAtHome
  BY DEF Init, LocksAtHome
<1>2. MountInv /\ LocksAtHome /\ [Next]_vars => LocksAtHome'
  BY AtHomeStep
<1>3. MountInv => CallsShorten
  BY WorkShortens DEF CallsShorten
<1>4. Init => MountInv
  BY MountStart
<1> QED BY <1>1, <1>2, <1>3, <1>4, HolderWorks, MountStep, PTL DEF Spec
=============================================================================
