------------------------- MODULE RuntimeState_proofs -------------------------
(***************************************************************************)
(* What a load finds, for any number of saves and retries: the last save   *)
(* that returned, never less than the main file, and never less than what  *)
(* the load before it found.                                               *)
(*                                                                         *)
(* The load trusts the times of the files.  IInv says why it may: of two   *)
(* files that can be read, the later one is of the later save.             *)
(***************************************************************************)
EXTENDS RuntimeState, TLAPS

Main == file["main"]
Pending == file["pending"]
Tmp == file["tmp"]

HasPending == Pending.there /\ ~Pending.torn

Counted ==
    /\ done <= begun /\ replaced <= begun
    /\ pc = "unlink" => replaced = begun
    /\ pc \in {"write", "replace"} => tries < Retries

\* The main file only ever comes whole, by os.replace.
MainWhole ==
    /\ ~Main.torn
    /\ Main.state = replaced
    /\ ~Main.there => replaced = 0
    /\ Main.there => Main.time < clock

\* The fallback is older than the save in progress until that save writes it.
PendingOlder ==
    HasPending =>
        /\ Pending.time < clock
        /\ Pending.state <= begun
        /\ pc \in {"write", "replace"} => Pending.state < begun

\* The temporary file that is about to be moved is newer than either.
TmpNewest ==
    pc = "replace" =>
        /\ Tmp.there /\ ~Tmp.torn /\ Tmp.state = begun
        /\ Tmp.time < clock
        /\ HasPending => Pending.time < Tmp.time

\* The times of the files are in the order of their saves.
TimesInOrder ==
    HasPending /\ Main.there =>
        IF Pending.time >= Main.time THEN Pending.state >= Main.state
                                     ELSE Pending.state <= Main.state

\* One of the two files has the last save that returned.
DoneIsKept ==
    /\ ~Pending.torn => replaced >= done \/ (Pending.there /\ Pending.state >= done)
    /\ pc = "cleanup" => HasPending /\ Pending.state = begun

IInv ==
    /\ TypeOK
    /\ Counted /\ MainWhole /\ PendingOlder /\ TmpNewest /\ TimesInOrder /\ DoneIsKept

-----------------------------------------------------------------------------

File == [there : BOOLEAN, torn : BOOLEAN, state : Nat, time : Nat]

\* What a step does to one file.
LEMMA PutFile ==
    ASSUME TypeOK, NEW f \in Files, NEW content \in File, file' = [file EXCEPT ![f] = content]
    PROVE  /\ file' \in [Files -> File]
           /\ file'[f] = content
           /\ \A g \in Files \ {f} : file'[g] = file[g]
BY DEF TypeOK, File

LEMMA Contents ==
    ASSUME TypeOK
    PROVE  /\ Absent \in File /\ ~Absent.there /\ ~Absent.torn /\ Absent.state = 0
           /\ Torn \in File /\ Torn.there /\ Torn.torn /\ Torn.time = clock
           /\ Written(begun) \in File /\ Written(begun).there /\ ~Written(begun).torn
           /\ Written(begun).state = begun /\ Written(begun).time = clock
           /\ Main \in File /\ Pending \in File /\ Tmp \in File
           /\ "main" \in Files /\ "pending" \in Files /\ "tmp" \in Files
           /\ file \in [Files -> File]
BY DEF TypeOK, File, Absent, Torn, Written, Main, Pending, Tmp, Files

LEMMA InitIInv == Init => IInv
<1> SUFFICES ASSUME Init PROVE IInv
  OBVIOUS
<1>1. Main = Absent /\ Pending = Absent /\ Tmp = Absent
  BY DEF Init, Main, Pending, Tmp, Files
<1>2. TypeOK
  BY RetriesAssumption DEF Init, TypeOK, Absent, Files
<1> QED
  BY <1>1, <1>2, RetriesAssumption
  DEF Init, IInv, Counted, MainWhole, PendingOlder, TmpNewest, TimesInOrder, DoneIsKept,
      Absent, HasPending

LEMMA NextIInv == IInv /\ [Next]_vars => IInv'
<1> SUFFICES ASSUME IInv, [Next]_vars PROVE IInv'
  OBVIOUS
<1>0. TypeOK
  BY DEF IInv
<1>1. /\ clock \in Nat /\ begun \in Nat /\ done \in Nat /\ replaced \in Nat /\ tries \in 0..Retries
      /\ Retries \in Nat
  BY <1>0, RetriesAssumption DEF TypeOK
<1>13. /\ Main.state \in Nat /\ Pending.state \in Nat /\ Main.time \in Nat /\ Pending.time \in Nat
       /\ Tmp.time \in Nat
  BY <1>0, Contents DEF File
<1> USE <1>13, <1>0, <1>1, Contents, RetriesAssumption
<1> USE DEF IInv, Counted, MainWhole, PendingOlder, TmpNewest, TimesInOrder, DoneIsKept, HasPending
<1>2. CASE BeginSave
  <2>1. /\ Tmp' = Torn /\ Main' = Main /\ Pending' = Pending /\ file' \in [Files -> File]
    BY <1>2, Contents, PutFile DEF BeginSave, Put, Remove, Main, Pending, Tmp, Files
  <2>2. TypeOK'
    BY <1>2, <2>1 DEF BeginSave, Step, Put, Return, TypeOK, File
  <2> QED BY <1>2, <2>1, <2>2 DEF BeginSave, Step, Put, Return
<1>3. CASE WriteTmp
  <2>1. /\ Tmp' = Written(begun) /\ Main' = Main /\ Pending' = Pending /\ file' \in [Files -> File]
    BY <1>3, Contents, PutFile DEF WriteTmp, Put, Remove, Main, Pending, Tmp, Files
  <2>2. TypeOK'
    BY <1>3, <2>1 DEF WriteTmp, Step, Put, Return, TypeOK, File
  <2> QED BY <1>3, <2>1, <2>2 DEF WriteTmp, Step, Put, Return
<1>4. CASE WriteTmpFails
  <2>1. Main' = Main /\ Pending' = Pending /\ Tmp' = Tmp
    BY <1>4 DEF WriteTmpFails, Main, Pending, Tmp
  <2>2. TypeOK'
    BY <1>4 DEF WriteTmpFails, Step, TypeOK
  <2> QED BY <1>4, <2>1, <2>2 DEF WriteTmpFails, Step
<1>5. CASE Replace
  <2>1. Main' = Tmp /\ Pending' = Pending /\ Tmp' = Absent /\ file' \in [Files -> File]
    BY <1>5 DEF Replace, Main, Pending, Tmp, Files
  <2>2. TypeOK'
    BY <1>5, <2>1 DEF Replace, Step, TypeOK, File
  <2> QED BY <1>5, <2>1, <2>2 DEF Replace, Step
<1>6. CASE ReplaceFails
  <2>1. Main' = Main /\ Pending' = Pending /\ Tmp' = Tmp
    BY <1>6 DEF ReplaceFails, Main, Pending, Tmp
  <2>2. TypeOK'
    BY <1>6 DEF ReplaceFails, Step, TypeOK
  <2> QED BY <1>6, <2>1, <2>2 DEF ReplaceFails, Step
<1>7. CASE UnlinkPending
  <2>1. /\ Pending' \in {Pending, Absent} /\ Main' = Main /\ Tmp' = Tmp
        /\ file' \in [Files -> File] /\ clock' = clock
    BY <1>7, PutFile DEF UnlinkPending, Remove, Main, Pending, Tmp, Files
  <2>2. TypeOK'
    BY <1>7, <2>1 DEF UnlinkPending, Return, TypeOK, File
  <2> QED BY <1>7, <2>1, <2>2 DEF UnlinkPending, Return
<1>10. CASE UnlinkTmp
  <2>1. /\ Tmp' \in {Tmp, Absent} /\ Main' = Main /\ Pending' = Pending
        /\ file' \in [Files -> File] /\ clock' = clock
    BY <1>10, PutFile DEF UnlinkTmp, Remove, Main, Pending, Tmp, Files
  <2>2. TypeOK'
    BY <1>10, <2>1 DEF UnlinkTmp, Return, TypeOK, File
  <2> QED BY <1>10, <2>1, <2>2 DEF UnlinkTmp, Return
<1>8. CASE OpenPending
  <2>1. /\ Pending' = Torn /\ Main' = Main /\ Tmp' = Tmp /\ file' \in [Files -> File]
    BY <1>8, Contents, PutFile DEF OpenPending, Put, Remove, Main, Pending, Tmp, Files
  <2>2. TypeOK'
    BY <1>8, <2>1 DEF OpenPending, Step, Put, Return, TypeOK, File
  <2> QED BY <1>8, <2>1, <2>2 DEF OpenPending, Step, Put, Return
<1>9. CASE WritePending
  <2>1. /\ Pending' = Written(begun) /\ Main' = Main /\ Tmp' = Tmp /\ file' \in [Files -> File]
    BY <1>9, Contents, PutFile DEF WritePending, Put, Remove, Main, Pending, Tmp, Files
  <2>2. TypeOK'
    BY <1>9, <2>1 DEF WritePending, Step, Put, Return, TypeOK, File
  <2> QED BY <1>9, <2>1, <2>2 DEF WritePending, Step, Put, Return
<1>11. CASE Crash
  <2>1. Main' = Main /\ Pending' = Pending /\ Tmp' = Tmp
    BY <1>11 DEF Crash, Main, Pending, Tmp
  <2>2. TypeOK'
    BY <1>11 DEF Crash, Step, TypeOK
  <2> QED BY <1>11, <2>1, <2>2 DEF Crash, Step
<1>12. CASE UNCHANGED vars
  <2>1. Main' = Main /\ Pending' = Pending /\ Tmp' = Tmp
    BY <1>12 DEF vars, Main, Pending, Tmp
  <2> QED BY <1>12, <2>1 DEF vars, TypeOK
<1> QED
  BY <1>2, <1>3, <1>4, <1>5, <1>6, <1>7, <1>8, <1>9, <1>10, <1>11, <1>12 DEF Next, Saving

\* The invariant holds of the files between any two operations of a save.
THEOREM Invariance == Spec => []IInv
BY InitIInv, NextIInv, PTL DEF Spec

-----------------------------------------------------------------------------

\* Of the two files the load takes the one of the later save.
LEMMA LoadedIsNewest ==
    ASSUME IInv
    PROVE  /\ Loaded \in Nat
           /\ Loaded >= Main.state /\ Loaded <= begun
           /\ HasPending => Loaded >= Pending.state
<1>1. Main.state \in Nat /\ Pending.state \in Nat /\ Main.time \in Nat /\ Pending.time \in Nat
      /\ begun \in Nat /\ replaced \in Nat
  BY Contents DEF IInv, TypeOK, File
<1>2. Loaded = IF HasPending /\ (Main.there /\ ~Main.torn => Pending.time >= Main.time)
               THEN Pending.state
               ELSE IF Main.there /\ ~Main.torn THEN Main.state ELSE 0
  BY DEF Loaded, Readable, HasPending, Main, Pending
<1> QED
  BY <1>1, <1>2 DEF IInv, MainWhole, Counted, PendingOlder, TimesInOrder

\* Files, clock and counters have their types.
THEOREM TypeCorrect == Spec => []TypeOK
BY Invariance, PTL DEF IInv

\* A load finds the last save that returned or a later one, unless the
\* fallback file has been emptied.
THEOREM LastSaveLoaded == Spec => []LoadsLastSave
<1>1. IInv => LoadsLastSave
  <2> SUFFICES ASSUME IInv, ~Pending.torn PROVE Loaded >= done
    BY DEF LoadsLastSave, Pending
  <2>1. Main.state \in Nat /\ Pending.state \in Nat /\ done \in Nat /\ Main.state = replaced
    BY Contents DEF IInv, TypeOK, File, MainWhole
  <2> QED BY <2>1, LoadedIsNewest DEF IInv, DoneIsKept, HasPending
<1> QED BY <1>1, Invariance, PTL

\* Nor does it find less than the main file has, then or ever.
THEOREM MainLoaded == Spec => []LoadsMainAtLeast
<1>1. IInv => LoadsMainAtLeast
  BY LoadedIsNewest DEF IInv, MainWhole, LoadsMainAtLeast
<1> QED BY <1>1, Invariance, PTL

\* Two loads one after the other do not find the states the wrong way round.
THEOREM LoadsInOrder == Spec => LoadsGoForward
<1>1. IInv => Loaded \in Nat /\ Loaded >= replaced /\ (HasPending => Loaded >= Pending.state)
  BY LoadedIsNewest DEF IInv, MainWhole
<1>2. (IInv => Loaded \in Nat /\ Loaded >= replaced /\ (HasPending => Loaded >= Pending.state))'
  BY <1>1, PTL
<1>3. IInv /\ IInv' /\ [Next]_vars => [Loaded' >= Loaded \/ file'["pending"].torn]_vars
  <2> SUFFICES ASSUME IInv, IInv', Next, ~Pending'.torn PROVE Loaded' >= Loaded
    BY DEF Pending
  <2>1. /\ Loaded \in Nat /\ Loaded <= begun
        /\ Loaded' \in Nat /\ Loaded' >= replaced'
        /\ HasPending' => Loaded' >= Pending'.state
    BY <1>2, LoadedIsNewest
  <2>2. begun \in Nat /\ replaced' \in Nat /\ TypeOK
    BY DEF IInv, TypeOK
  <2>3. ASSUME Main' = Main, Pending' = Pending PROVE Loaded' = Loaded
    BY <2>3 DEF Loaded, Readable, Main, Pending
  <2>4. CASE BeginSave \/ WriteTmp \/ WriteTmpFails \/ ReplaceFails \/ UnlinkTmp \/ Crash
    <3>1. Main' = Main /\ Pending' = Pending
      BY <2>2, <2>4 DEF BeginSave, WriteTmp, WriteTmpFails, ReplaceFails, UnlinkTmp, Crash,
                        Put, Remove, Main, Pending, TypeOK, Files
    <3> QED BY <2>1, <2>3, <3>1
  <2>5. CASE Replace \/ UnlinkPending
    <3>1. replaced' = begun
      BY <2>5 DEF Replace, UnlinkPending, IInv, Counted
    <3> QED BY <2>1, <2>2, <3>1
  <2>6. CASE OpenPending
    <3>1. Pending' = Torn
      BY <2>2, <2>6 DEF OpenPending, Put, Pending, TypeOK, Files
    <3> QED BY <2>2, <3>1, Contents
  <2>7. CASE WritePending
    <3>1. Pending' = Written(begun)
      BY <2>2, <2>7 DEF WritePending, Put, Pending, TypeOK, Files
    <3>2. HasPending' /\ Pending'.state = begun
      BY <2>2, <3>1, Contents DEF HasPending
    <3> QED BY <2>1, <2>2, <3>2
  <2> QED BY <2>4, <2>5, <2>6, <2>7 DEF Next, Saving
<1> QED BY <1>3, Invariance, PTL DEF Spec, LoadsGoForward
=============================================================================
