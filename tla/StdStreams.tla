----------------------------- MODULE StdStreams -----------------------------
(***************************************************************************)
(* std-streams: each launch writes one line to a file on the card, reads   *)
(* it back into the log, does the same with a file named relative to the   *)
(* working directory, and polls.  The files outlive the launches; the card *)
(* may be taken out or be read-only, a write may be cut short, and the     *)
(* process may be killed anywhere.                                         *)
(*                                                                         *)
(* A file is kept as the lines a reader gets: "text" is the program's own, *)
(* "part" the beginning of it, "other" what some other program has put     *)
(* there between two launches.                                             *)
(***************************************************************************)
EXTENDS Naturals, Sequences

CONSTANT MaxLaunches  \* bound on the launches

ASSUME StdStreamsAssumption == MaxLaunches \in Nat

Files == {"sdcard", "device"}
Uses == {"none", "read", "write"}  \* what the system lets the program do
Ends == {"nothing", "open error", "read error", "lines"}

VARIABLES
  pc, file,  \* where android_main is, and with which file
  launched,
  exists,    \* the files there are
  lines,     \* per file
  use,       \* per file: one of Uses
  opened,    \* the ofstream has its file
  res,       \* per file: what write_to_file returns
  wrote,     \* per file: what became of this launch's text
  said,      \* per file: how read_from_file ended
  got,       \* per file: the lines it has logged
  left       \* per file: its lines before this launch

main == <<pc, file, launched>>
disk == <<exists, lines>>
report == <<res, wrote, said, got>>
vars == <<main, disk, use, opened, report, left>>

Init ==
  /\ pc = "idle" /\ file = "sdcard" /\ launched = 0
  /\ exists = {} /\ lines = [f \in Files |-> <<>>]
  /\ use \in [Files -> Uses] /\ opened = FALSE
  /\ res = [f \in Files |-> FALSE]
  /\ wrote = [f \in Files |-> "nothing"] /\ said = [f \in Files |-> "nothing"]
  /\ got = [f \in Files |-> <<>>]
  /\ left = [f \in Files |-> <<>>]

Launch ==
  /\ pc = "idle" /\ pc' = "open" /\ file' = "sdcard"
  /\ launched < MaxLaunches /\ launched' = launched + 1
  /\ res' = [f \in Files |-> FALSE]
  /\ wrote' = [f \in Files |-> "nothing"] /\ said' = [f \in Files |-> "nothing"]
  /\ got' = [f \in Files |-> <<>>]
  /\ left' = lines
  /\ UNCHANGED <<disk, use, opened>>

(* stream.fail() once stream.clear() has been called; the plausible bug     *)
(* that is none: without clear() it tells whether the file was opened.      *)
FailUncleared(open) == ~open
FailAfterClear(open) == FALSE

(* Plausible bug, Open: ios::app in the place of ios::out. *)
OpenToAppend ==
  /\ pc = "open" /\ pc' = "put"
  /\ opened' = (use[file] = "write")
  /\ exists' = IF opened' THEN exists \cup {file} ELSE exists
  /\ res' = [res EXCEPT ![file] = ~FailAfterClear(opened')]
  /\ UNCHANGED <<file, launched, lines, use, wrote, said, got, left>>

(* The ofstream of write_to_file, which empties the file, and the test of   *)
(* its state, which res remembers.                                          *)
Open ==
  /\ pc = "open" /\ pc' = "put"
  /\ opened' = (use[file] = "write")
  /\ IF opened'
       THEN exists' = exists \cup {file} /\ lines' = [lines EXCEPT ![file] = <<>>]
       ELSE UNCHANGED disk
  /\ res' = [res EXCEPT ![file] = ~FailAfterClear(opened')]
  /\ UNCHANGED <<file, launched, use, wrote, said, got, left>>

(* The text, flushed by endl; nobody looks at the state of the stream, and  *)
(* android_main not at what write_to_file returns.                          *)
Put ==
  /\ pc = "put" /\ pc' = "read"
  /\ \/ ~opened /\ wrote' = [wrote EXCEPT ![file] = "lost"] /\ UNCHANGED lines
     \/ /\ opened /\ wrote' = [wrote EXCEPT ![file] = "stored"]
        /\ lines' = [lines EXCEPT ![file] = Append(@, "text")]
     \/ /\ opened /\ wrote' = [wrote EXCEPT ![file] = "cut"]
        /\ \E some \in {<<>>, <<"part">>, <<"text">>} :
             lines' = [lines EXCEPT ![file] = @ \o some]
  /\ opened' = FALSE
  /\ UNCHANGED <<file, launched, exists, use, res, said, got, left>>

(* android_main goes on with the second file, or to its poll loop. *)
GoOn ==
  /\ pc' = IF file = "sdcard" THEN "open" ELSE "poll"
  /\ file' = "device"

(* read_from_file.  The files fit one buffer of the ifstream, so a read     *)
(* that fails leaves no line to log; it ends the loop as the end of the     *)
(* file does.                                                               *)
Read ==
  /\ pc = "read" /\ GoOn
  /\ IF use[file] # "none" /\ file \in exists
       THEN \/ /\ said' = [said EXCEPT ![file] = "lines"]
               /\ got' = [got EXCEPT ![file] = lines[file]]
            \/ said' = [said EXCEPT ![file] = "read error"] /\ UNCHANGED got
       ELSE said' = [said EXCEPT ![file] = "open error"] /\ UNCHANGED got
  /\ UNCHANGED <<launched, disk, use, opened, res, wrote, left>>

(* destroyRequested ends the poll loop; a process can be killed anywhere.   *)
Exit ==
  /\ pc # "idle" /\ pc' = "idle" /\ opened' = FALSE
  /\ UNCHANGED <<file, launched, disk, use, report, left>>

Remount ==
  /\ \E u \in Uses \ {use["sdcard"]} : use' = [use EXCEPT !["sdcard"] = u]
  /\ UNCHANGED <<main, disk, opened, report, left>>

OtherProgram ==
  /\ pc = "idle"
  /\ exists' = exists \cup {"sdcard"}
  /\ lines' = [lines EXCEPT !["sdcard"] = <<"other", "other">>]
  /\ UNCHANGED <<main, use, opened, report, left>>

Next == Launch \/ Open \/ Put \/ Read \/ Exit \/ Remount \/ OtherProgram

Spec == Init /\ [][Next]_vars
-----------------------------------------------------------------------------
(* Properties. *)

(* What a file can hold: two launches never add up. *)
Contents == {<<>>, <<"part">>, <<"text">>, <<"other", "other">>}

(* The variables keep the values the program can give them, and there is    *)
(* nothing in a file that does not exist.                                   *)
TypeOK ==
  /\ pc \in {"idle", "open", "put", "read", "poll"} /\ file \in Files
  /\ launched \in 0 .. MaxLaunches
  /\ exists \subseteq Files /\ use \in [Files -> Uses] /\ opened \in BOOLEAN
  /\ lines \in [Files -> Contents]
  /\ \A f \in Files : lines[f] # <<>> => f \in exists
  /\ got \in [Files -> Contents] /\ left \in [Files -> Contents]
  /\ wrote \in [Files -> {"nothing", "lost", "cut", "stored"}]
  /\ res \in [Files -> BOOLEAN]
  /\ said \in [Files -> Ends]

(* A launch that has stored its text reads back that text and nothing else, *)
(* or fails to read at all, whatever crashed launches and other programs    *)
(* had left in the file.                                                    *)
StoredReadsBack ==
  \A f \in Files : wrote[f] = "stored" =>
    got[f] = IF said[f] = "lines" THEN <<"text">> ELSE <<>>

(* The clear() before the test hides a file that could not be opened: for a *)
(* launch that could not write its text, write_to_file returns true, and a  *)
(* read that works logs what was in the file before, as if it were its own. *)
(* Nothing but a failed read can give the loss away.                        *)
LossShows ==
  \A f \in Files : wrote[f] = "lost" =>
    /\ res[f]
    /\ got[f] = IF said[f] = "lines" THEN left[f] ELSE <<>>
=============================================================================
