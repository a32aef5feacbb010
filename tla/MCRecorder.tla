------------------------------- MODULE MCRecorder -------------------------------
(* A queue of two lines, five lines sent, and a clock long enough for a sync to
   fall due twice and for the wait at exit to run out. *)
EXTENDS Recorder
=============================================================================
