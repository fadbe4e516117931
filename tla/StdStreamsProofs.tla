-------------------------- MODULE StdStreamsProofs --------------------------
(* What std-streams reads back, for any number of launches. *)
EXTENDS StdStreams, TLAPS

(* Where android_main has not come to yet, this launch has left nothing.    *)
Ahead(f) ==
  pc \in {"open", "put", "read"} /\ (f = file \/ file = "sdcard")
Untouched(f) ==
  /\ Ahead(f) => got[f] = <<>> /\ said[f] = "nothing"
  /\ Ahead(f) /\ (f = file => pc # "read") => wrote[f] = "nothing"
  /\ Ahead(f) /\ (f = file => pc = "open") => lines[f] = left[f]

(* An open ofstream has emptied its file; without one the file is as the    *)
(* launch has found it; write_to_file is content with either.  After the    *)
(* write the file tells how it went.                                        *)
FileTells ==
  /\ opened => pc = "put" /\ file \in exists
  /\ pc = "put" => lines[file] = IF opened THEN <<>> ELSE left[file]
  /\ pc \in {"put", "read"} => res[file]
  /\ pc = "read" /\ wrote[file] = "stored" => lines[file] = <<"text">>
  /\ pc = "read" /\ wrote[file] = "lost" => lines[file] = left[file]

Inv ==
  /\ TypeOK /\ StoredReadsBack /\ LossShows
  /\ \A f \in Files : Untouched(f)
  /\ FileTells

(* One line, or a part of it, put in an empty file.                         *)
LEMMA FirstLine ==
  /\ Append(<<>>, "text") = <<"text">>
  /\ <<>> \o <<>> = <<>> /\ <<>> \o <<"part">> = <<"part">>
  /\ <<>> \o <<"text">> = <<"text">>
OBVIOUS

(* The invariant holds before the first launch.                             *)
LEMMA InitInv == Init => Inv
<1> SUFFICES ASSUME Init PROVE Inv
    OBVIOUS
<1> USE StdStreamsAssumption DEF Init
<1>1. /\ lines \in [Files -> Contents] /\ got \in [Files -> Contents]
      /\ left \in [Files -> Contents]
      BY DEF Contents
<1>2. /\ wrote \in [Files -> {"nothing", "lost", "cut", "stored"}]
      /\ res \in [Files -> BOOLEAN] /\ said \in [Files -> Ends]
      BY DEF Ends
<1>3. TypeOK
  <2>1. file \in Files /\ launched \in 0 .. MaxLaunches /\ exists \subseteq Files
        BY DEF Files
  <2>2. \A f \in Files : lines[f] = <<>>
        OBVIOUS
  <2> QED  BY <1>1, <1>2, <2>1, <2>2 DEF TypeOK
<1>4. StoredReadsBack /\ LossShows /\ FileTells
      BY DEF StoredReadsBack, LossShows, FileTells
<1>5. ASSUME NEW f \in Files PROVE Untouched(f)
      BY DEF Untouched, Ahead
<1> QED  BY <1>3, <1>4, <1>5 DEF Inv

(* A launch starts with what is in the files.                               *)
LEMMA LaunchInv == Inv /\ Launch => Inv'
<1> SUFFICES ASSUME Inv, Launch PROVE Inv'
    OBVIOUS
<1> USE StdStreamsAssumption DEF Launch, disk
<1>0. /\ got' \in [Files -> Contents]
      /\ wrote' \in [Files -> {"nothing", "lost", "cut", "stored"}]
      /\ res' \in [Files -> BOOLEAN] /\ said' \in [Files -> Ends]
      BY DEF Contents, Ends
<1>1. TypeOK'
  <2>1. launched \in 0 .. MaxLaunches
        BY DEF Inv, TypeOK
  <2>2. file' \in Files /\ launched' \in 0 .. MaxLaunches
        BY <2>1 DEF Files
  <2> QED  BY <1>0, <2>2 DEF Inv, TypeOK
<1>2. StoredReadsBack' /\ LossShows' /\ FileTells'
      BY DEF Inv, StoredReadsBack, LossShows, FileTells
<1>3. ASSUME NEW f \in Files PROVE Untouched(f)'
      BY DEF Untouched, Ahead
<1> QED  BY <1>1, <1>2, <1>3 DEF Inv

(* Opening for output empties the file, or leaves it as it was.             *)
LEMMA OpenInv == Inv /\ Open => Inv'
<1> SUFFICES ASSUME Inv, Open PROVE Inv'
    OBVIOUS
<1> USE DEF Open, disk, report
<1>1. file \in Files /\ lines \in [Files -> Contents] /\ exists \subseteq Files
      BY DEF Inv, TypeOK
<1>2. /\ exists' \subseteq Files /\ lines' \in [Files -> Contents]
      /\ exists \subseteq exists' /\ opened' \in BOOLEAN
      /\ opened' => file \in exists'
      /\ lines'[file] = IF opened' THEN <<>> ELSE lines[file]
      /\ \A f \in Files \ {file} : lines'[f] = lines[f]
      BY <1>1 DEF Contents
<1>7. res' \in [Files -> BOOLEAN] /\ res'[file]
      /\ \A f \in Files \ {file} : res'[f] = res[f]
      BY <1>1 DEF Inv, TypeOK, FailAfterClear
<1>3. TypeOK'
      BY <1>1, <1>2, <1>7 DEF Inv, TypeOK
<1>4. StoredReadsBack' /\ LossShows'
      BY <1>1, <1>7 DEF Inv, StoredReadsBack, LossShows
<1>5. ASSUME NEW f \in Files PROVE Untouched(f)'
      BY <1>1, <1>2 DEF Inv, Untouched, Ahead
<1>6. FileTells'
      BY <1>1, <1>2, <1>7 DEF Inv, FileTells, Untouched, Ahead
<1> QED  BY <1>3, <1>4, <1>5, <1>6 DEF Inv

(* The text is in the file, or lost with the file as it was, or cut short.  *)
LEMMA PutInv == Inv /\ Put => Inv'
<1> SUFFICES ASSUME Inv, Put PROVE Inv'
    OBVIOUS
<1> USE DEF Put
<1>1. /\ file \in Files /\ lines \in [Files -> Contents]
      /\ wrote \in [Files -> {"nothing", "lost", "cut", "stored"}]
      BY DEF Inv, TypeOK
<1>2. /\ lines[file] = IF opened THEN <<>> ELSE left[file]
      /\ opened => file \in exists
      BY DEF Inv, FileTells
<1>3. /\ lines' \in [Files -> Contents]
      /\ \A f \in Files \ {file} : lines'[f] = lines[f]
      /\ wrote' \in [Files -> {"nothing", "lost", "cut", "stored"}]
      /\ \A f \in Files \ {file} : wrote'[f] = wrote[f]
      /\ wrote'[file] = "lost" => lines'[file] = left[file]
      /\ wrote'[file] = "stored" => lines'[file] = <<"text">>
      /\ lines'[file] # lines[file] => file \in exists
  <2>1. CASE ~opened /\ wrote' = [wrote EXCEPT ![file] = "lost"] /\ UNCHANGED lines
        BY <1>1, <1>2, <2>1
  <2>2. CASE /\ opened /\ wrote' = [wrote EXCEPT ![file] = "stored"]
             /\ lines' = [lines EXCEPT ![file] = Append(@, "text")]
    <3>1. lines' = [lines EXCEPT ![file] = <<"text">>]
          BY <1>2, <2>2, FirstLine
    <3> QED  BY <1>1, <1>2, <2>2, <3>1 DEF Contents
  <2>3. CASE /\ opened /\ wrote' = [wrote EXCEPT ![file] = "cut"]
             /\ \E some \in {<<>>, <<"part">>, <<"text">>} :
                  lines' = [lines EXCEPT ![file] = @ \o some]
    <3>1. PICK some \in {<<>>, <<"part">>, <<"text">>} :
            lines' = [lines EXCEPT ![file] = <<>> \o some]
          BY <1>2, <2>3
    <3>2. <<>> \o some \in Contents
          BY <3>1, FirstLine DEF Contents
    <3> QED  BY <1>1, <1>2, <2>3, <3>1, <3>2
  <2> QED  BY <2>1, <2>2, <2>3
<1>4. TypeOK'
      BY <1>1, <1>3 DEF Inv, TypeOK
<1>5. \A f \in Files : Ahead(f)' => Ahead(f)
      BY DEF Ahead
<1>6. got[file] = <<>> /\ said[file] = "nothing" /\ res[file]
      BY <1>1 DEF Inv, Untouched, Ahead, FileTells
<1>7. StoredReadsBack' /\ LossShows'
      BY <1>1, <1>3, <1>6 DEF Inv, StoredReadsBack, LossShows
<1>8. ASSUME NEW f \in Files PROVE Untouched(f)'
      BY <1>1, <1>3, <1>5 DEF Inv, Untouched
<1>9. FileTells'
      BY <1>3, <1>6 DEF FileTells
<1> QED  BY <1>4, <1>7, <1>8, <1>9 DEF Inv

(* What is logged is what the file tells, or nothing.                       *)
LEMMA ReadInv == Inv /\ Read => Inv'
<1> SUFFICES ASSUME Inv, Read PROVE Inv'
    OBVIOUS
<1> USE DEF Read, GoOn, disk
<1>1. /\ file \in Files /\ lines \in [Files -> Contents]
      /\ got \in [Files -> Contents] /\ got[file] = <<>>
      /\ said \in [Files -> Ends]
      BY DEF Inv, TypeOK, Untouched, Ahead
<1>2. /\ said' \in [Files -> Ends]
      /\ got' \in [Files -> Contents]
      /\ \A f \in Files \ {file} : got'[f] = got[f] /\ said'[f] = said[f]
      /\ got'[file] = IF said'[file] = "lines" THEN lines[file] ELSE <<>>
  <2>1. CASE said' = [said EXCEPT ![file] = "open error"] /\ UNCHANGED got
        BY <1>1, <2>1 DEF Ends
  <2>2. CASE said' = [said EXCEPT ![file] = "read error"] /\ UNCHANGED got
        BY <1>1, <2>2 DEF Ends
  <2>3. CASE /\ said' = [said EXCEPT ![file] = "lines"]
             /\ got' = [got EXCEPT ![file] = lines[file]]
        BY <1>1, <2>3 DEF Ends
  <2> QED  BY <2>1, <2>2, <2>3
<1>3. TypeOK'
      BY <1>2 DEF Inv, TypeOK, Files
<1>4. StoredReadsBack' /\ LossShows'
      BY <1>1, <1>2 DEF Inv, StoredReadsBack, LossShows, FileTells
<1>5. ASSUME NEW f \in Files PROVE Untouched(f)'
  <2>1. Ahead(f)' => f # file /\ file = "sdcard"
        BY DEF Ahead, Files
  <2> QED  BY <1>2, <2>1 DEF Inv, Untouched, Ahead
<1>6. FileTells'
      BY DEF Inv, Untouched, Ahead, FileTells, Files
<1> QED  BY <1>3, <1>4, <1>5, <1>6 DEF Inv

(* The end of the process, a change of the card, another program, or no     *)
(* step at all.                                                             *)
LEMMA OutsideInv == Inv /\ (Exit \/ Remount \/ OtherProgram \/ UNCHANGED vars) => Inv'
<1> SUFFICES ASSUME Inv, Exit \/ Remount \/ OtherProgram \/ UNCHANGED vars PROVE Inv'
    OBVIOUS
<1>1. CASE Exit
  <2> USE <1>1 DEF Exit, disk, report
  <2>1. TypeOK'
        BY DEF Inv, TypeOK
  <2>2. StoredReadsBack' /\ LossShows' /\ FileTells'
        BY DEF Inv, StoredReadsBack, LossShows, FileTells
  <2>3. ASSUME NEW f \in Files PROVE Untouched(f)'
        BY DEF Untouched, Ahead
  <2> QED  BY <2>1, <2>2, <2>3 DEF Inv
<1>2. CASE OtherProgram
  <2> USE <1>2 DEF OtherProgram, main, report
  <2>1. TypeOK'
        BY DEF Inv, TypeOK, Contents, Files
  <2>2. StoredReadsBack' /\ LossShows' /\ FileTells'
        BY DEF Inv, StoredReadsBack, LossShows, FileTells
  <2>3. ASSUME NEW f \in Files PROVE Untouched(f)'
        BY DEF Untouched, Ahead
  <2> QED  BY <2>1, <2>2, <2>3 DEF Inv
<1>3. CASE Remount \/ UNCHANGED vars
  <2>1. /\ UNCHANGED <<main, disk, opened, report, left>>
        /\ use' \in [Files -> Uses]
        BY <1>3 DEF Remount, vars, Inv, TypeOK
  <2> USE <2>1 DEF main, disk, report
  <2>2. TypeOK'
        BY DEF Inv, TypeOK
  <2>3. StoredReadsBack' /\ LossShows' /\ FileTells'
        BY DEF Inv, StoredReadsBack, LossShows, FileTells
  <2>4. ASSUME NEW f \in Files PROVE Untouched(f)'
        BY DEF Inv, Untouched, Ahead
  <2> QED  BY <2>2, <2>3, <2>4 DEF Inv
<1> QED  BY <1>1, <1>2, <1>3

(* The invariant holds in every reachable state.                            *)
LEMMA SpecInv == Spec => []Inv
<1>1. Init => Inv  BY InitInv
<1>2. Inv /\ [Next]_vars => Inv'
      BY LaunchInv, OpenInv, PutInv, ReadInv, OutsideInv DEF Next
<1> QED  BY <1>1, <1>2, PTL DEF Spec

-----------------------------------------------------------------------------
(* A file has the lines of one writer at most, however many launches there  *)
(* were: each empties it first.                                             *)
THEOREM TypeCorrect == Spec => []TypeOK
<1>1. Inv => TypeOK  BY DEF Inv
<1> QED  BY <1>1, SpecInv, PTL

(* A launch that has stored its text logs that text and nothing else,       *)
(* unless the read fails.                                                   *)
THEOREM StoredReadsBackHolds == Spec => []StoredReadsBack
<1>1. Inv => StoredReadsBack  BY DEF Inv
<1> QED  BY <1>1, SpecInv, PTL

(* A launch whose write was lost is told of success by write_to_file, and   *)
(* logs what was in the file before it unless the read fails.               *)
THEOREM LossShowsHolds == Spec => []LossShows
<1>1. Inv => LossShows  BY DEF Inv
<1> QED  BY <1>1, SpecInv, PTL
=============================================================================
