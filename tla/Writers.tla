------------------------------- MODULE Writers -------------------------------
(***************************************************************************)
(* pkg/sqlcmd: where results and messages go.  :out and :error open files  *)
(* and close those in use before; sqlcmd's own errors go where WriteError  *)
(* finds a stream for them.                                                *)
(***************************************************************************)
EXTENDS Integers

CONSTANTS
  Handles        \* bound: files open at a time

VARIABLES
  out, err,      \* writers: "none", "stdout", "stderr" or a handle
  encoded,       \* UnicodeOutputFile: -u
  opened,        \* what is open: handles, and the standard streams
  encoders,      \* those that were opened behind an encoder
  told           \* history: where the last error of sqlcmd itself went

wvars == <<out, err, encoded, opened, encoders, told>>

Standard == {"stdout", "stderr"}

ASSUME HandlesAssumption == Handles \cap (Standard \cup {"none"}) = {}

(* GetOutput, GetError.                                                    *)
Output == IF out = "none" THEN "stdout" ELSE out
Errors == IF err = "none" THEN "stderr" ELSE err

WInit ==
  /\ out = "none" /\ err = "none" /\ encoded \in BOOLEAN
  /\ opened = Standard /\ encoders = {} /\ told = "none"

ClosesStderr(w) == IF w \in {"none", "stdout"} \cup encoders THEN {} ELSE {w}

(* SetOutput and SetError close what they replace, but for the standard    *)
(* streams.  To close an encoder does not close the file behind it.        *)
Closes(w) == IF w \in {"none"} \cup Standard \cup encoders THEN {} ELSE {w}

OutCommand ==
  /\ \/ out' \in Standard /\ opened' = opened \ Closes(out) /\ encoders' = encoders
     \/ \E h \in Handles \ opened :
          /\ out' = h
          /\ opened' = (opened \ Closes(out)) \cup {h}
          /\ encoders' = IF encoded THEN encoders \cup {h} ELSE encoders \ {h}
  /\ UNCHANGED <<err, encoded, told>>

ErrorCommand ==
  /\ \/ err' \in Standard /\ opened' = opened \ Closes(err) /\ encoders' = encoders
     \/ \E h \in Handles \ opened :
          /\ err' = h
          /\ opened' = (opened \ Closes(err)) \cup {h}
          /\ encoders' = encoders \ {h}
  /\ UNCHANGED <<out, encoded, told>>

(* WriteError of an error of sqlcmd itself.                                *)
WriteError ==
  /\ told' = IF Errors # "stdout" THEN Errors ELSE "stderr"
  /\ UNCHANGED <<out, err, encoded, opened, encoders>>

(* run and Query take the writers away at the end.                         *)
EndWriters ==
  /\ out' = "none" /\ err' = "none"
  /\ opened' = opened \ (Closes(out) \cup Closes(err))
  /\ UNCHANGED <<encoded, encoders, told>>

WNext == OutCommand \/ ErrorCommand \/ WriteError \/ EndWriters

WSpec == WInit /\ [][WNext]_wvars
-----------------------------------------------------------------------------
(* A writer in use is open, so neither results nor messages are lost to a  *)
(* closed file; the standard streams, to which either writer may return and*)
(* the process itself writes, stay open; and an open file is in use, but   *)
(* for those of -u, which stay open behind a closed encoder.               *)
WritersOpen ==
  /\ {out, err} \ {"none"} \subseteq opened /\ Standard \subseteq opened
  /\ opened \subseteq Standard \cup {out, err} \cup encoders
=============================================================================
