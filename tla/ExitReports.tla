---------------------------- MODULE ExitReports ----------------------------
(***************************************************************************)
(* What instant exit detection promises those who use it, whatever thread  *)
(* and system calls are behind it: only processes that are gone are        *)
(* reported, and a pid handed over is owed a report until it gets one, is  *)
(* refused, or the detection as a whole stops.                             *)
(***************************************************************************)
EXTENDS Naturals

CONSTANTS Pid,     (* process ids, each used once                          *)
          Faults   (* "refuse": a pid may be refused; "stop": it may stop  *)

VARIABLES gone,    (* the processes that have exited                       *)
          owed,    (* the pids handed over and not yet reported            *)
          exits,   (* how many unread reports of each pid there are        *)
          up       (* whether detection still works                        *)

vars == <<gone, owed, exits, up>>

Init ==
    /\ gone = {} /\ owed = {}
    /\ exits = [p \in Pid |-> 0]
    /\ up = TRUE

Exit(p) ==
    /\ p \notin gone
    /\ gone' = gone \cup {p}
    /\ UNCHANGED <<owed, exits, up>>

\* Once detection has stopped a pid may be turned away.
HandOver(p) ==
    /\ \/ owed' = owed \cup {p}
       \/ ~up /\ owed' = owed
    /\ UNCHANGED <<gone, exits, up>>

\* A pid handed over again in the meantime is owed another report.
Report(p) ==
    /\ up /\ p \in owed \cap gone
    /\ exits' = [exits EXCEPT ![p] = @ + 1]
    /\ owed' \in {owed, owed \ {p}}
    /\ UNCHANGED <<gone, up>>

Receive(p) ==
    /\ exits[p] > 0
    /\ exits' = [exits EXCEPT ![p] = @ - 1]
    /\ UNCHANGED <<gone, owed, up>>

Refuse(p) ==
    /\ "refuse" \in Faults /\ p \in owed
    /\ owed' = owed \ {p}
    /\ UNCHANGED <<gone, exits, up>>

Stop ==
    /\ "stop" \in Faults
    /\ up' = FALSE /\ owed' \in SUBSET owed
    /\ UNCHANGED <<gone, exits>>

Next ==
    \/ \E p \in Pid : Exit(p) \/ HandOver(p) \/ Report(p) \/ Receive(p) \/ Refuse(p)
    \/ Stop

Spec == Init /\ [][Next]_vars
=============================================================================
