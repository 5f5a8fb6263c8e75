----------------------------- MODULE DiskMounts -----------------------------
(* Mounting disk images (server/runners/disk_mount.py).  A disk tool calls  *)
(* mount_disk_image, which serves the path from its cache, from what the    *)
(* operator mounted, or by running ewfmount, mount and guestmount; then the *)
(* tool reads below that path, holding no lock.  The caches and the lock    *)
(* per image belong to one process; the mount directory and /proc/mounts    *)
(* belong to the host, and several processes use them: the orchestrator     *)
(* (pre_extract_disk_tier1) and the MCP servers of its analysts.            *)
EXTENDS Naturals, Sequences, FiniteSets

CONSTANTS
    Threads, Procs, ProcOf,   \* threads that serve disk tools, their processes
    Images,                   \* registered disk images
    Short,                    \* evidence_id[:8], which names the mount directory
    Setups,                   \* what an operator may have prepared, see below
    None,
    MaxCalls,                 \* bound: calls made in all
    MaxStarts,                \* bound: processes started in all
    MaxFaults                 \* bound: crashes, commands that misbehave, foreign umounts

ASSUME ProcsAssumption   == ProcOf \in [Threads -> Procs]
ASSUME ShortIsInjective  == \A e, f \in Images : Short[e] = Short[f] => e = f
ASSUME NoneAssumption    == None \notin Images \cup Threads
ASSUME BoundsAssumption  == MaxCalls \in Nat /\ MaxStarts \in Nat /\ MaxFaults \in Nat

(* SIFT_DISK_PREMOUNTED_PATH ("env") covers every image; a hint file covers *)
(* the image it is named after; asRoot: the server needs no sudo.           *)
Formats == {"e01", "raw", "vhdx"}
ASSUME SetupsAssumption ==
    Setups \subseteq [mode : {"none", "env", "hint"}, hinted : SUBSET Images,
                      ro : BOOLEAN, asRoot : BOOLEAN, format : [Images -> Formats]]
(* The variable names one path for every image, so it is for a case of one. *)
ASSUME EnvAssumption ==
    (\E s \in Setups : s.mode = "env") => \A e, f \in Images : e = f

VARIABLES
    setup,      \* the operator's choice, a member of Setups
    table,      \* /proc/mounts: the mounts of the host, oldest first
    mounted,    \* mounted[p][e]: _MOUNT_CACHE of process p, a path or None
    ewfs,       \* ewfs[p]: the images in _EWF_DIR_CACHE
    guests,     \* guests[p]: the images in _GUESTMOUNT_CACHE
    lock,       \* lock[p][e]: the thread that holds the lock of e in p
    phase,      \* what thread t does next
    image,      \* the image it was called with
    path,       \* the path its tool works on
    life,       \* life[p]: down, sweeping, up or exiting
    sweep,      \* sweep[p]: stale mounts it still has to look at
    run,        \* run[p]: the number of its current start
    left,       \* history: the starts that ended by an orderly exit
    smooth,     \* history: one process at a time, no command misbehaved
    calls, starts, faults

cacheVars  == <<mounted, ewfs, guests>>
threadVars == <<lock, phase, image, path>>
procVars   == <<life, sweep, run, left, starts>>
vars == <<setup, table, cacheVars, threadVars, procVars, smooth, calls, faults>>

Phases == {"idle", "wait", "cached", "clean_root", "clean_ewf", "ewf", "loop",
           "fallback", "guest", "verify", "raise", "using"}

----------------------------------------------------------------------------
(* The mount table                                                          *)

Root(e) == <<"root", Short[e]>>
Ewf(e)  == <<"ewf", Short[e]>>
Operators(e) == <<"operator", e>>
Paths == UNION {{Root(e), Ewf(e), Operators(e)} : e \in Images}
ASSUME NoPathIsNone == None \notin Paths

Entries(at) == {i \in DOMAIN table : table[i].at = at}
Mounted(at) == Entries(at) # {}

(* _is_path_mounted_readonly looks at the first line of the path.           *)
ReadOnly(at) == \E i \in Entries(at) : table[i].ro /\ \A j \in Entries(at) : i <= j

(* What a reader of the path sees is what was mounted last.                 *)
Shows(at, e) == \E i \in Entries(at) : table[i].of = e /\ \A j \in Entries(at) : j <= i

Without(tab, i) == [j \in 1 .. Len(tab) - 1 |-> IF j < i THEN tab[j] ELSE tab[j + 1]]

(* umount takes the last mount of a path away, unless another mount needs   *)
(* it: the loop device over ewf1 keeps the ewfmount busy.                   *)
Busy(tab, i) == tab[i].kind = "ewf" /\ \E j \in DOMAIN tab : tab[j].kind = "loop" /\ tab[j].of = tab[i].of
Peeled(tab, at) ==
    LET here == {i \in DOMAIN tab : tab[i].at = at} IN
    IF \E i \in here : (\A j \in here : j <= i) /\ ~ Busy(tab, i)
    THEN Without(tab, CHOOSE i \in here : \A j \in here : j <= i)
    ELSE tab

Misbehave == faults < MaxFaults /\ faults' = faults + 1 /\ smooth' = FALSE
Well == UNCHANGED <<faults, smooth>>

(* _force_unmount: up to three commands until the path is free; its result  *)
(* is not looked at.                                                        *)
ForceUnmount(at) ==
    \/ table' = Peeled(Peeled(Peeled(table, at), at), at) /\ Well
    \/ Mounted(at) /\ table' = table /\ Misbehave

----------------------------------------------------------------------------
(* One call                                                                 *)

Covered(e) == setup.mode = "env" \/ (setup.mode = "hint" /\ e \in setup.hinted)
Proc(t) == ProcOf[t]
Goto(t, where) == phase' = [phase EXCEPT ![t] = where]
Free(t) == lock' = [lock EXCEPT ![Proc(t)][image[t]] = None]
Keep(t, at) == mounted' = [mounted EXCEPT ![Proc(t)][image[t]] = at]

Call(t, e) ==
    /\ life[Proc(t)] = "up" /\ phase[t] = "idle" /\ calls < MaxCalls
    /\ Goto(t, "wait")
    /\ image' = [image EXCEPT ![t] = e]
    /\ calls' = calls + 1
    /\ UNCHANGED <<setup, table, cacheVars, lock, path, procVars, smooth, faults>>

Take(t) ==
    /\ phase[t] = "wait" /\ lock[Proc(t)][image[t]] = None
    /\ lock' = [lock EXCEPT ![Proc(t)][image[t]] = t]
    /\ Goto(t, "cached")
    /\ UNCHANGED <<setup, table, cacheVars, image, path, procVars, smooth, calls, faults>>

Serve(t, at) ==
    /\ Goto(t, "using") /\ Free(t)
    /\ path' = [path EXCEPT ![t] = at]
    /\ UNCHANGED <<setup, table, ewfs, guests, image, procVars, smooth, calls, faults>>

CheckCacheTrusting(t) ==
    LET at == mounted[Proc(t)][image[t]] IN
    /\ phase[t] = "cached"
    /\ IF at # None THEN Serve(t, at) /\ UNCHANGED mounted
       ELSE /\ Goto(t, "clean_root")
            /\ UNCHANGED <<setup, table, cacheVars, lock, image, path, procVars, smooth, calls, faults>>

(* A cache hit counts only if the path is still mounted; a mount of the     *)
(* operator only if it is read-only; anything else is mounted anew.         *)
CheckCache(t) ==
    LET e == image[t]  at == mounted[Proc(t)][image[t]] IN
    /\ phase[t] = "cached"
    /\ \/ /\ at # None /\ ReadOnly(at)
          /\ Serve(t, at) /\ UNCHANGED mounted
       \/ /\ at = None \/ ~ ReadOnly(at)
          /\ Covered(e) /\ ReadOnly(Operators(e))
          /\ Serve(t, Operators(e)) /\ Keep(t, Operators(e))
       \/ /\ at = None \/ ~ ReadOnly(at)
          /\ Covered(e) /\ ~ ReadOnly(Operators(e))
          /\ Keep(t, None) /\ Goto(t, "idle") /\ Free(t)
          /\ UNCHANGED <<setup, table, ewfs, guests, image, path, procVars, smooth, calls, faults>>
       \/ /\ at = None \/ ~ ReadOnly(at)
          /\ ~ Covered(e)
          /\ Keep(t, None) /\ Goto(t, "clean_root")
          /\ UNCHANGED <<setup, table, ewfs, guests, lock, image, path, procVars, smooth, calls, faults>>

First(e) == CASE setup.format[e] = "e01" -> "ewf" [] setup.format[e] = "raw" -> "loop"
              [] setup.format[e] = "vhdx" -> "guest"

(* _clean_stale_mount_for: the target, then the ewfmount below it.          *)
CleanRoot(t) ==
    /\ phase[t] = "clean_root" /\ Goto(t, "clean_ewf")
    /\ ForceUnmount(Root(image[t]))
    /\ UNCHANGED <<setup, cacheVars, lock, image, path, procVars, calls>>

CleanNothing(t) ==
    /\ phase[t] = "clean_ewf" /\ Goto(t, First(image[t]))
    /\ UNCHANGED <<setup, table, cacheVars, lock, image, path, procVars, smooth, calls, faults>>

CleanEwf(t) ==
    /\ phase[t] = "clean_ewf" /\ Goto(t, First(image[t]))
    /\ ForceUnmount(Ewf(image[t]))
    /\ UNCHANGED <<setup, cacheVars, lock, image, path, procVars, calls>>

(* A FUSE mount wants an empty directory; mount stacks.                     *)
Target(t) == IF phase[t] = "ewf" THEN Ewf(image[t]) ELSE Root(image[t])
Possible(t) ==
    CASE phase[t] = "ewf"   -> ~ Mounted(Ewf(image[t]))
      [] phase[t] = "loop"  -> setup.format[image[t]] = "e01" => Shows(Ewf(image[t]), image[t])
      [] phase[t] = "guest" -> ~ Mounted(Root(image[t]))
New(t) == [at |-> Target(t), of |-> image[t], kind |-> phase[t], ro |-> TRUE, by |-> run[Proc(t)]]

(* A command mounts; or fails; or is killed by its timeout and has mounted. *)
Command(t, works, fails) ==
    \/ Possible(t) /\ table' = Append(table, New(t)) /\ Goto(t, works) /\ Well
    \/ table' = table /\ Goto(t, fails) /\ Well
    \/ Possible(t) /\ table' = Append(table, New(t)) /\ Goto(t, fails) /\ Misbehave

MountEwf(t) ==
    /\ phase[t] = "ewf" /\ Command(t, "loop", "fallback")
    /\ ewfs' = IF phase'[t] = "loop" THEN [ewfs EXCEPT ![Proc(t)] = @ \cup {image[t]}] ELSE ewfs
    /\ UNCHANGED <<setup, mounted, guests, lock, image, path, procVars, calls>>

MountLoop(t) ==
    /\ phase[t] = "loop" /\ Command(t, "verify", "fallback")
    /\ UNCHANGED <<setup, cacheVars, lock, image, path, procVars, calls>>

MountGuest(t) ==
    /\ phase[t] = "guest" /\ Command(t, "verify", "raise")
    /\ guests' = IF phase'[t] = "verify" THEN [guests EXCEPT ![Proc(t)] = @ \cup {image[t]}] ELSE guests
    /\ UNCHANGED <<setup, mounted, ewfs, lock, image, path, procVars, calls>>

(* _cleanup_partial_mount: guestunmount if a guestmount is on record, then  *)
(* umount, then fusermount if an ewfmount is on record, which only root can *)
(* do to what sudo mounted.                                                 *)
GuestOn(tab, at) == \E i \in DOMAIN tab : tab[i].at = at /\ tab[i].kind = "guest"
Dismantled(p, e, at) ==
    LET one == IF e \in guests[p] /\ GuestOn(table, Root(e)) THEN Peeled(table, Root(e)) ELSE table
        two == Peeled(one, at)
    IN  IF e \in ewfs[p] /\ setup.asRoot THEN Peeled(two, Ewf(e)) ELSE two

DismantleNothing(p, e, at) ==
    /\ table' = table /\ Well
    /\ guests' = [guests EXCEPT ![p] = @ \ {e}] /\ ewfs' = [ewfs EXCEPT ![p] = @ \ {e}]

Dismantle(p, e, at) ==
    /\ \/ table' = Dismantled(p, e, at) /\ Well
       \/ table' = table /\ Misbehave
    /\ guests' = [guests EXCEPT ![p] = @ \ {e}] /\ ewfs' = [ewfs EXCEPT ![p] = @ \ {e}]

Fallback(t) ==
    /\ phase[t] = "fallback" /\ Goto(t, "guest")
    /\ Dismantle(Proc(t), image[t], Root(image[t]))
    /\ UNCHANGED <<setup, mounted, lock, image, path, procVars, calls>>

VerifyUncached(t) ==
    /\ phase[t] = "verify" /\ ReadOnly(Root(image[t]))
    /\ Serve(t, Root(image[t])) /\ UNCHANGED mounted

Verify(t) ==
    /\ phase[t] = "verify"
    /\ \/ /\ ReadOnly(Root(image[t]))
          /\ Serve(t, Root(image[t])) /\ Keep(t, Root(image[t]))
       \/ /\ ~ ReadOnly(Root(image[t])) /\ Goto(t, "raise")
          /\ UNCHANGED <<setup, table, cacheVars, lock, image, path, procVars, smooth, calls, faults>>

Raise(t) ==
    /\ phase[t] = "raise" /\ Goto(t, "idle") /\ Free(t)
    /\ Dismantle(Proc(t), image[t], Root(image[t]))
    /\ UNCHANGED <<setup, mounted, image, path, procVars, calls>>

(* The disk tool has read what it wanted.                                   *)
Finish(t) ==
    /\ phase[t] = "using" /\ Goto(t, "idle")
    /\ path' = [path EXCEPT ![t] = None]
    /\ UNCHANGED <<setup, table, cacheVars, lock, image, procVars, smooth, calls, faults>>

----------------------------------------------------------------------------
(* Processes                                                                *)

Own(p) == {t \in Threads : ProcOf[t] = p}
Quiet(p) == \A t \in Own(p) : phase[t] = "idle"

(* cleanup_stale_mounts_globally, before the workers of the orchestrator    *)
(* start: every mount below the base that is not in its caches.             *)
Stale(p) ==
    LET known == {mounted[p][e] : e \in Images} \cup {Ewf(e) : e \in ewfs[p]} \cup {Root(e) : e \in guests[p]}
        stale == SelectSeq(table, LAMBDA m : m.at[1] # "operator" /\ m.at \notin known)
    IN  IF setup.mode = "env" THEN <<>> ELSE [i \in DOMAIN stale |-> stale[i].at]

(* An MCP server starts, or an orchestrator that sweeps first.              *)
Start(p) ==
    /\ life[p] = "down" /\ starts < MaxStarts
    /\ starts' = starts + 1
    /\ run' = [run EXCEPT ![p] = starts + 1]
    /\ \/ life' = [life EXCEPT ![p] = "up"] /\ UNCHANGED sweep
       \/ life' = [life EXCEPT ![p] = "sweeping"] /\ sweep' = [sweep EXCEPT ![p] = Stale(p)]
    /\ smooth' = (smooth /\ \A q \in Procs : life[q] = "down")
    /\ UNCHANGED <<setup, table, cacheVars, threadVars, left, calls, faults>>

Sweep(p) ==
    /\ life[p] = "sweeping"
    /\ \/ /\ sweep[p] # <<>>
          /\ ForceUnmount(Head(sweep[p]))
          /\ sweep' = [sweep EXCEPT ![p] = Tail(@)]
          /\ UNCHANGED life
       \/ /\ sweep[p] = <<>>
          /\ life' = [life EXCEPT ![p] = "up"]
          /\ UNCHANGED <<sweep, table, smooth, faults>>
    /\ UNCHANGED <<setup, cacheVars, threadVars, run, left, starts, calls>>

(* _atexit_cleanup_all_mounts, image by image.                              *)
Exit(p) ==
    /\ life[p] = "up" /\ Quiet(p)
    /\ life' = [life EXCEPT ![p] = "exiting"]
    /\ UNCHANGED <<setup, table, cacheVars, threadVars, sweep, run, left, starts, smooth, calls, faults>>

Unmount(p, e) ==
    /\ life[p] = "exiting" /\ setup.mode # "env" /\ mounted[p][e] # None
    /\ Dismantle(p, e, mounted[p][e])
    /\ mounted' = [mounted EXCEPT ![p][e] = None]
    /\ UNCHANGED <<setup, threadVars, procVars, calls>>

Forget(p) ==
    /\ mounted' = [mounted EXCEPT ![p] = [e \in Images |-> None]]
    /\ ewfs' = [ewfs EXCEPT ![p] = {}] /\ guests' = [guests EXCEPT ![p] = {}]
    /\ life' = [life EXCEPT ![p] = "down"]

Exited(p) ==
    /\ life[p] = "exiting"
    /\ setup.mode = "env" \/ \A e \in Images : mounted[p][e] = None
    /\ Forget(p)
    /\ left' = left \cup {run[p]}
    /\ UNCHANGED <<setup, table, threadVars, sweep, run, starts, smooth, calls, faults>>

(* Killed: no teardown; a mount command that is under way may still mount.  *)
Crash(p) ==
    /\ life[p] # "down" /\ faults < MaxFaults /\ faults' = faults + 1
    /\ Forget(p)
    /\ \/ table' = table
       \/ \E t \in Own(p) : /\ phase[t] \in {"ewf", "loop", "guest"} /\ Possible(t)
                            /\ table' = Append(table, New(t))
    /\ lock' = [lock EXCEPT ![p] = [e \in Images |-> None]]
    /\ phase' = [t \in Threads |-> IF t \in Own(p) THEN "idle" ELSE phase[t]]
    /\ path' = [t \in Threads |-> IF t \in Own(p) THEN None ELSE path[t]]
    /\ sweep' = [sweep EXCEPT ![p] = <<>>]
    /\ UNCHANGED <<setup, image, run, left, starts, smooth, calls>>

(* Somebody unmounts by hand.                                               *)
ForeignUmount ==
    /\ \E i \in DOMAIN table : table' = Peeled(table, table[i].at) /\ table' # table
    /\ Misbehave
    /\ UNCHANGED <<setup, cacheVars, threadVars, procVars, calls>>

----------------------------------------------------------------------------

OperatorsMounts ==
    LET at(e) == [at |-> Operators(e), of |-> e, kind |-> "operator", ro |-> setup.ro, by |-> 0]
    IN  {at(e) : e \in {e \in Images : Covered(e)}}

Init ==
    /\ setup \in Setups
    /\ table \in {s \in [1 .. Cardinality(OperatorsMounts) -> OperatorsMounts] :
                     \A m \in OperatorsMounts : \E i \in DOMAIN s : s[i] = m}
    /\ mounted = [p \in Procs |-> [e \in Images |-> None]]
    /\ ewfs = [p \in Procs |-> {}] /\ guests = [p \in Procs |-> {}]
    /\ lock = [p \in Procs |-> [e \in Images |-> None]]
    /\ phase = [t \in Threads |-> "idle"]
    /\ image \in [Threads -> Images] /\ path = [t \in Threads |-> None]
    /\ life = [p \in Procs |-> "down"] /\ sweep = [p \in Procs |-> <<>>]
    /\ run = [p \in Procs |-> 0] /\ left = {}
    /\ smooth = TRUE /\ calls = 0 /\ starts = 0 /\ faults = 0

Work(t) ==
    \/ CheckCache(t) \/ CleanRoot(t) \/ CleanEwf(t) \/ MountEwf(t)
    \/ MountLoop(t) \/ MountGuest(t) \/ Fallback(t) \/ Verify(t) \/ Raise(t)

Next ==
    \/ \E t \in Threads : Take(t) \/ Work(t) \/ Finish(t) \/ \E e \in Images : Call(t, e)
    \/ \E p \in Procs : Start(p) \/ Sweep(p) \/ Exit(p) \/ Exited(p) \/ Crash(p)
                          \/ \E e \in Images : Unmount(p, e)
    \/ ForeignUmount

(* Every command a call runs has a timeout, so its steps are taken; a lock  *)
(* that is freed again and again is obtained at some time.                  *)
Spec ==
    /\ Init /\ [][Next]_vars
    /\ \A t \in Threads : WF_vars(Work(t)) /\ SF_vars(Take(t))

----------------------------------------------------------------------------
(* Properties                                                               *)

Mount == [at : Paths, of : Images, kind : {"ewf", "loop", "guest", "operator"},
          ro : BOOLEAN, by : 0 .. MaxStarts]

(* The types; a thread holds the lock of the image it works for from the    *)
(* time it took it to its answer, and no other lock (mount_disk_image is    *)
(* "serialized per-evidence_id").                                           *)
TypeOK ==
    /\ setup \in Setups
    /\ table \in Seq(Mount)
    /\ mounted \in [Procs -> [Images -> Paths \cup {None}]]
    /\ ewfs \in [Procs -> SUBSET Images] /\ guests \in [Procs -> SUBSET Images]
    /\ phase \in [Threads -> Phases]
    /\ image \in [Threads -> Images] /\ path \in [Threads -> Paths \cup {None}]
    /\ lock \in [Procs -> [Images -> Threads \cup {None}]]
    /\ \A t \in Threads, e \in Images :
         lock[Proc(t)][e] = t <=> e = image[t] /\ phase[t] \notin {"idle", "wait", "using"}

(* While processes come one after the other and their commands behave, a    *)
(* mount command never meets a mount: not the one of a sibling thread, not  *)
(* one that a killed process left (the two failures of the runs of          *)
(* 2026-05-13 that _MOUNT_LOCKS and _clean_stale_mount_for are about).      *)
MountsMeetNothing ==
    smooth => \A t \in Threads :
        phase[t] \in {"ewf", "loop", "guest"} => ~ Mounted(Target(t))

(* ... and what a tool works on stays mounted under it: no other call, no   *)
(* teardown of a failed attempt and no exit takes it away.                  *)
UseHolds ==
    smooth => \A t \in Threads : phase[t] = "using" => Shows(path[t], image[t])

(* ... and a process that exited in order has left none of its mounts       *)
(* behind, but for ewfmounts it has not the rights to unmount.              *)
ExitUnmounts ==
    smooth => \A i \in DOMAIN table :
        table[i].by \in left => table[i].kind = "ewf" /\ ~ setup.asRoot

(* The mounts of the operator: "do not attempt to unmount"                  *)
(* (disk_mount.py:867).                                                     *)
OperatorMountsStay ==
    smooth => \A m \in OperatorsMounts : \E i \in DOMAIN table : table[i] = m

(* Calls are answered, and a path is served only while it shows its image.  *)
Working(t) == phase[t] \notin {"idle", "using"}
Service == INSTANCE MountService WITH
    Threads <- Threads, Images <- Images, None <- None,
    asked   <- [t \in Threads |-> IF Working(t) THEN image[t] ELSE None],
    granted <- [t \in Threads |-> IF phase[t] = "using" THEN image[t] ELSE None],
    showing <- {e \in Images : \E at \in {Root(e), Operators(e)} : ReadOnly(at) /\ Shows(at, e)}
RefinesMountService == Service!Spec
=============================================================================
