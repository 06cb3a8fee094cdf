------------------------------ MODULE TtyModes ------------------------------
(***************************************************************************)
(* tty_cbreak, tty_raw, tty_reset and tty_atexit of apue.3e/lib/           *)
(* ttymodes.c.  The terminal's state is the set of settings that differ    *)
(* from those it had at first.  tcsetattr may fail, and may succeed with   *)
(* only some of the changes made.                                          *)
(***************************************************************************)
EXTENDS Integers

CONSTANTS Cbreak, Raw, Nofd   \* what the modes change: Cbreak \subseteq Raw

VARIABLES
  tty, save_termios,    \* the terminal, and the saved state
  ttystate, ttysavefd,
  rpc, mode, res,       \* the step of a call, the mode it is to set, its result
  stuck                 \* history: not all was put back when it should have been

vars == <<tty, save_termios, ttystate, ttysavefd, rpc, mode, res, stuck>>

Init ==
  /\ tty = {} /\ save_termios = {} /\ ttystate = "RESET" /\ ttysavefd = Nofd
  /\ rpc = "idle" /\ mode = "RESET" /\ res = 0 /\ stuck = FALSE

Wanted == IF mode = "RAW" THEN Raw ELSE Cbreak

(* The start of tty_cbreak and tty_raw: refuse, or read and save the state. *)
Start(m) ==
  /\ rpc = "idle" /\ mode' = m
  /\ IF ttystate # "RESET" THEN res' = -1 /\ UNCHANGED <<rpc, save_termios>>
     ELSE \/ res' = -1 /\ UNCHANGED <<rpc, save_termios>>                    \* tcgetattr fails
          \/ save_termios' = tty /\ rpc' = "set" /\ UNCHANGED res
  /\ UNCHANGED <<tty, ttystate, ttysavefd, stuck>>

tty_cbreak == Start("CBREAK")
tty_raw == Start("RAW")

(* tcsetattr: an error with no change, or any part of the changes. *)
Set ==
  /\ rpc = "set"
  /\ \/ rpc' = "idle" /\ res' = -1 /\ UNCHANGED tty
     \/ \E made \in SUBSET Wanted : tty' = save_termios \cup made /\ rpc' = "verify" /\ UNCHANGED res
  /\ UNCHANGED <<save_termios, ttystate, ttysavefd, mode, stuck>>

(* Mutation: the outcome of tcsetattr is not verified. *)
Trust ==
  /\ rpc = "verify" /\ rpc' = "idle"
  /\ ttystate' = mode /\ ttysavefd' = 0 /\ res' = 0
  /\ UNCHANGED <<tty, save_termios, mode, stuck>>

(* tcsetattr with what was saved: any of the changes may be left, all of     *)
(* them if it fails.                                                         *)
PutBack ==
  \E left \in SUBSET (tty \ save_termios) :
    tty' = save_termios \cup left /\ stuck' = (stuck \/ left # {})

(* Read the state again; only if every change was made is the mode entered.  *)
(* Otherwise what was saved is put back, with no look at the outcome.        *)
Verify ==
  /\ rpc = "verify" /\ rpc' = "idle"
  /\ \/ /\ Wanted \subseteq tty
        /\ ttystate' = mode /\ ttysavefd' = 0 /\ res' = 0 /\ UNCHANGED <<tty, stuck>>
     \/ res' = -1 /\ PutBack             \* a change is missing, or tcgetattr fails
        /\ UNCHANGED <<ttystate, ttysavefd>>
  /\ UNCHANGED <<save_termios, mode>>

(* Here a return of 0 is taken for success and not verified: RESET may be    *)
(* said of a terminal that is still in a part of the mode.                   *)
tty_reset ==
  /\ rpc = "idle"
  /\ IF ttystate = "RESET" THEN res' = 0 /\ UNCHANGED <<tty, ttystate, stuck>>
     ELSE \/ res' = -1 /\ UNCHANGED <<tty, ttystate, stuck>>
          \/ PutBack /\ ttystate' = "RESET" /\ res' = 0
  /\ UNCHANGED <<save_termios, ttysavefd, rpc, mode>>

tty_atexit == ttysavefd # Nofd /\ tty_reset

Next == tty_cbreak \/ tty_raw \/ Set \/ Verify \/ tty_reset \/ tty_atexit

-----------------------------------------------------------------------------
(* Between calls ttystate is the truth about the terminal, whatever failed   *)
(* half way: in a mode all of it is set.  As long as tcsetattr has never     *)
(* left some of the changes when it was to put them back, what is saved in a *)
(* mode is the terminal as it was first, and out of one the terminal is so.  *)
StateIsTrue ==
  rpc = "idle" =>
    /\ ttystate = "RAW" => Raw \subseteq tty
    /\ ttystate = "CBREAK" => Cbreak \subseteq tty
    /\ ~stuck => IF ttystate = "RESET" THEN tty = {} ELSE save_termios = {}
=============================================================================
