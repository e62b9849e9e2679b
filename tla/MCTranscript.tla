---------------------------- MODULE MCTranscript ----------------------------
(***************************************************************************)
(* One session with one transcript, two processes that may hold it, and    *)
(* the vocabularies of two sources: Codex, whose turns start with a line   *)
(* of their own, and Claude Code, whose sessions end with one and may be   *)
(* resumed.                                                                *)
(***************************************************************************)
EXTENDS Transcript

CONSTANTS transcript, session

OneSession == [f \in {transcript} |-> session]

Sources == {{"work", "end", "resume"}, {"work", "turn"}}
=============================================================================
