---------------------------- MODULE RuntimeState ----------------------------
(***************************************************************************)
(* services/state_service.py: how save_runtime_state puts the runtime      *)
(* state on disk, and what load_runtime_state finds there, at a restart or *)
(* from the Streamlit pages, which load it while the engine saves.  The    *)
(* states saved are numbered in the order of their saves.  A step is one   *)
(* operation on the file system; the process may be killed between any     *)
(* two.  Every operation advances the clock that stamps the files: the two *)
(* of a save that falls back are a second of retries apart.                *)
(***************************************************************************)
EXTENDS Naturals

CONSTANTS
    MaxSaves,    \* bound: saves in a behavior
    Retries      \* _STATE_WRITE_RETRIES

ASSUME RetriesAssumption == Retries \in Nat \ {0}
ASSUME MaxSavesAssumption == MaxSaves \in Nat

VARIABLES
    file,        \* file[f]: runtime_state.json, .pending.json and .tmp
    clock,       \* the time that the next file written is stamped with
    pc,          \* the next operation of the save, "idle" without one
    tries,       \* os.replace was tried so often
    begun,       \* the number of the save in progress, or of the last one
    done,        \* the number of the last save that returned
    replaced     \* the number of the last save that reached the main file

vars == <<file, clock, pc, tries, begun, done, replaced>>

Files == {"main", "pending", "tmp"}

\* A file that was opened for writing and has not been written yet is torn:
\* it is there, and it is no JSON.  0 is the empty state before any save.
Absent == [there |-> FALSE, torn |-> FALSE, state |-> 0, time |-> 0]
Torn == [there |-> TRUE, torn |-> TRUE, state |-> 0, time |-> clock]
Written(n) == [there |-> TRUE, torn |-> FALSE, state |-> n, time |-> clock]

Init ==
    /\ file = [f \in Files |-> Absent]
    /\ clock = 1
    /\ pc = "idle"
    /\ tries = 0
    /\ begun = 0
    /\ done = 0
    /\ replaced = 0

-----------------------------------------------------------------------------
(* load_runtime_state.                                                     *)

Readable(f) == file[f].there /\ ~file[f].torn

\* A fault for the checks: the pending file is always the first candidate.
LoadedByName == IF Readable("pending") THEN file["pending"].state
                ELSE IF Readable("main") THEN file["main"].state ELSE 0

\* _candidate_state_paths sorts by st_mtime, newest first; the first one that
\* can be read is taken, and none of them leaves the state empty.
Loaded ==
    IF Readable("pending") /\ (Readable("main") => file["pending"].time >= file["main"].time)
    THEN file["pending"].state
    ELSE IF Readable("main") THEN file["main"].state ELSE 0

-----------------------------------------------------------------------------
(* save_runtime_state.                                                     *)

Step(from, to) == pc = from /\ pc' = to

Put(f, content) == file' = [file EXCEPT ![f] = content] /\ clock' = clock + 1
Remove(f) == file' = [file EXCEPT ![f] = Absent] /\ UNCHANGED clock

\* A fault for the checks: the fallback file goes before the main file is new.
BeginSaveWithoutPending ==
    /\ Step("idle", "write")
    /\ begun < MaxSaves
    /\ begun' = begun + 1
    /\ tries' = 0
    /\ file' = [file EXCEPT !["tmp"] = Torn, !["pending"] = Absent]
    /\ clock' = clock + 1
    /\ UNCHANGED <<done, replaced>>

\* open(tmp_path, 'w')
BeginSave ==
    /\ Step("idle", "write")
    /\ begun < MaxSaves
    /\ begun' = begun + 1
    /\ tries' = 0
    /\ Put("tmp", Torn)
    /\ UNCHANGED <<done, replaced>>

\* f.write, f.flush and os.fsync.
WriteTmp ==
    /\ Step("write", "replace")
    /\ Put("tmp", Written(begun))
    /\ UNCHANGED <<tries, begun, done, replaced>>

\* The disk refuses, and the exception leaves the save.
WriteTmpFails ==
    /\ Step("write", "idle")
    /\ UNCHANGED <<file, clock, tries, begun, done, replaced>>

\* os.replace moves the temporary file, with its time, over the main file.
Replace ==
    /\ Step("replace", "unlink")
    /\ file' = [file EXCEPT !["main"] = file["tmp"], !["tmp"] = Absent]
    /\ replaced' = begun
    /\ UNCHANGED <<clock, tries, begun, done>>

\* A fault for the checks: the attempts are counted from the start again.
ReplaceFailsAgain ==
    /\ pc = "replace"
    /\ tries' = (tries + 1) % Retries
    /\ UNCHANGED <<file, clock, pc, begun, done, replaced>>

\* Another process holds the file: tried again, and then given up.
ReplaceFails ==
    /\ pc = "replace"
    /\ tries' = tries + 1
    /\ pc' = IF tries' < Retries THEN "replace" ELSE "fallback"
    /\ UNCHANGED <<file, clock, begun, done, replaced>>

Return == pc' = "idle" /\ done' = begun

\* STATE_PENDING_PATH.unlink(), whose OSError is passed over.
UnlinkPending ==
    /\ pc = "unlink"
    /\ Remove("pending") \/ UNCHANGED <<file, clock>>
    /\ Return
    /\ UNCHANGED <<tries, begun, replaced>>

\* open(STATE_PENDING_PATH, 'w') empties the fallback of an earlier save.
OpenPending ==
    /\ Step("fallback", "pending")
    /\ Put("pending", Torn)
    /\ UNCHANGED <<tries, begun, done, replaced>>

WritePending ==
    /\ Step("pending", "cleanup")
    /\ Put("pending", Written(begun))
    /\ UNCHANGED <<tries, begun, done, replaced>>

\* tmp_path.unlink(), whose OSError is passed over.
UnlinkTmp ==
    /\ pc = "cleanup"
    /\ Remove("tmp") \/ UNCHANGED <<file, clock>>
    /\ Return
    /\ UNCHANGED <<tries, begun, replaced>>

\* The process is killed, or the disk refuses a write of the fallback; either
\* way the save is over without a return, and a later one may begin.
Crash ==
    /\ pc # "idle"
    /\ pc' = "idle"
    /\ UNCHANGED <<file, clock, tries, begun, done, replaced>>

Saving ==
    \/ WriteTmp \/ WriteTmpFails \/ Replace \/ ReplaceFails \/ UnlinkPending
    \/ OpenPending \/ WritePending \/ UnlinkTmp

Next == BeginSave \/ Saving \/ Crash

Spec == Init /\ [][Next]_vars

\* A save that has begun goes on.
FairSpec == Spec /\ WF_vars(Saving)

-----------------------------------------------------------------------------

TypeOK ==
    /\ file \in [Files -> [there : BOOLEAN, torn : BOOLEAN, state : Nat, time : Nat]]
    /\ clock \in Nat
    /\ pc \in {"idle", "write", "replace", "unlink", "fallback", "pending", "cleanup"}
    /\ tries \in 0..Retries
    /\ begun \in Nat /\ done \in Nat /\ replaced \in Nat

\* Whoever loads, and whenever, gets a state at least as new as the last save
\* that returned, unless the fallback file has just been emptied (and the
\* process then perhaps killed): in that time the fallback's state is lost.
LoadsLastSave == ~file["pending"].torn => Loaded >= done

\* Even then the load finds the last state that reached the main file.
LoadsMainAtLeast == Loaded >= replaced

\* What a reader sees does not go back, but for the same case: a fallback file
\* that could not be removed never comes before a newer main file.
LoadsGoForward == [][Loaded' >= Loaded \/ file'["pending"].torn]_vars

\* Every save comes to its end, whoever holds the files.
SavesEnd == pc # "idle" ~> pc = "idle"
=============================================================================
