--------------------------- MODULE MCVoiceStream ---------------------------
(***************************************************************************)
(* VoiceStream on small instances. The channels of a session share nothing *)
(* but the providers, so one stream is checked; the runs differ in which   *)
(* of its hazards they switch on.                                          *)
(***************************************************************************)
EXTENDS VoiceStream

(* Audio lengths: one unit and two, so that the limit on buffered audio and
   the limit on the number of jobs are each reached before the other.        *)
OneLength == {1}
TwoLengths == {1, 2}
=============================================================================
