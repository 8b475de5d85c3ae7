---------------------------- MODULE MCLegacyRun ----------------------------
(* LegacyRun for TLC: every mode, and between them the pairs of settings.  *)
EXTENDS LegacyRun

Option(level, readOnly, onError) ==
  [level |-> level, readOnly |-> readOnly, onError |-> onError]

(* -b alone; -b -V 16; -V 16; read-only with and without -b; none.         *)
MCStarts ==
  {<<"console", Option(0, FALSE, TRUE)>>, <<"console", Option(16, TRUE, FALSE)>>,
   <<"piped", Option(16, FALSE, TRUE)>>, <<"piped", Option(0, TRUE, FALSE)>>,
   <<"files", Option(0, FALSE, TRUE)>>, <<"files", Option(0, TRUE, TRUE)>>,
   <<"files", Option(16, FALSE, FALSE)>>, <<"initial", Option(0, FALSE, TRUE)>>,
   <<"pipedinitial", Option(16, TRUE, TRUE)>>,
   <<"query", Option(16, TRUE, TRUE)>>, <<"query", Option(0, FALSE, FALSE)>>}
=============================================================================
