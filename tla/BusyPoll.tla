------------------------------ MODULE BusyPoll ------------------------------
(***************************************************************************)
(* Configure_busy_poll (internal/bpf/bpfWrapper.c): the ladder of          *)
(* setsockopt calls that turns preferred busy polling on for an AF_XDP     *)
(* socket and, when a rung breaks, tries to climb down again.              *)
(*                                                                         *)
(* A socket is the record of its three options, each in force or not.  The *)
(* kernel is the record "ok" saying which call it would let through; a     *)
(* call the ladder never reaches is ignored.                               *)
(***************************************************************************)

Socket == [prefer : BOOLEAN, busy : BOOLEAN, budget : BOOLEAN]

DefaultSocket == [prefer |-> FALSE, busy |-> FALSE, budget |-> FALSE]

Configured(s) == s.prefer /\ s.busy /\ s.budget

Kernel == [prefer   : BOOLEAN,   \* set SO_PREFER_BUSY_POLL
           busy     : BOOLEAN,   \* set SO_BUSY_POLL
           budget   : BOOLEAN,   \* set SO_BUSY_POLL_BUDGET
           unbusy   : BOOLEAN,   \* clear SO_BUSY_POLL
           unprefer : BOOLEAN]   \* clear SO_PREFER_BUSY_POLL

\* The label err_timeout: 0 when SO_PREFER_BUSY_POLL could be cleared.
ErrTimeout(s, ok) ==
  IF ok.unprefer THEN [ret |-> 0, sock |-> [s EXCEPT !.prefer = FALSE]]
                 ELSE [ret |-> 1, sock |-> s]

\* Faulty variant: the preference stays when only the timeout is cleared.
RestoreBusyPollOnly(s, ok) ==
  IF ok.unbusy THEN [ret |-> 0, sock |-> [s EXCEPT !.busy = FALSE]]
               ELSE [ret |-> 1, sock |-> s]

\* Restoring after the budget was refused: SO_BUSY_POLL first.
RestoreBusyPoll(s, ok) ==
  IF ok.unbusy THEN ErrTimeout([s EXCEPT !.busy = FALSE], ok)
               ELSE [ret |-> 1, sock |-> s]

\* The C function: its return value and the socket it leaves behind.
Configure_busy_poll(s, ok) ==
  LET preferred == [s EXCEPT !.prefer = TRUE]
      polled    == [preferred EXCEPT !.busy = TRUE]
      budgeted  == [polled EXCEPT !.budget = TRUE]
  IN  IF ~ok.prefer      THEN [ret |-> 1, sock |-> s]
      ELSE IF ~ok.busy   THEN ErrTimeout(preferred, ok)
      ELSE IF ~ok.budget THEN RestoreBusyPoll(polled, ok)
      ELSE [ret |-> 0, sock |-> budgeted]
=============================================================================
