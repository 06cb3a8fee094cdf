------------------------------ MODULE GetPass ------------------------------
(***************************************************************************)
(* getpass() of apue.3e/termios/getpass.c: a password is read from the     *)
(* terminal without echo while the interrupt and suspend keys are held     *)
(* back.  The keys come at any time; SIGCONT lets a stopped process go on. *)
(* The quit key is not held back.                                          *)
(***************************************************************************)
EXTENDS Naturals, Sequences

CONSTANTS MAX_PASS_LEN, MaxTyped

VARIABLES
  gpc, echo,        \* the place in getpass(); the terminal
  osig, heldBack,       \* was the caller's mask blocking the keys; are they blocked
  keys,             \* keys that are pending
  keyed, pass,      \* what was typed, and buf
  run,              \* "yes", or "stopped", "killed", "quit"
  unrestored        \* history: the tcsetattr at the end failed

vars == <<gpc, echo, osig, heldBack, keys, keyed, pass, run, unrestored>>

Init ==
  /\ gpc = "open" /\ echo = TRUE /\ osig \in BOOLEAN /\ heldBack = osig
  /\ keys = {} /\ keyed = <<>> /\ pass = <<>> /\ run = "yes" /\ unrestored = FALSE

At(p, q) == gpc = p /\ run = "yes" /\ gpc' = q

Open ==
  /\ At("open", "block") \/ At("open", "return")
  /\ UNCHANGED <<echo, osig, heldBack, keys, keyed, pass, run, unrestored>>

Block ==
  /\ At("block", "noecho") /\ heldBack' = TRUE
  /\ UNCHANGED <<echo, osig, keys, keyed, pass, run, unrestored>>

(* tcsetattr may fail, unnoticed. *)
NoEcho ==
  /\ At("noecho", "read") /\ echo' \in {FALSE, echo}
  /\ UNCHANGED <<osig, heldBack, keys, keyed, pass, run, unrestored>>

(* Mutation: no limit on what is kept. *)
Unbounded(c) == pass' = Append(pass, c)
Keep(c) == IF Len(pass) < MAX_PASS_LEN THEN pass' = Append(pass, c) ELSE UNCHANGED pass

(* getc: a character, or the newline or the end of file. *)
Getc ==
  /\ \/ \E c \in {1, 2} : At("read", "read") /\ Len(keyed) < MaxTyped /\ keyed' = Append(keyed, c) /\ Keep(c)
     \/ At("read", "echo") /\ UNCHANGED <<keyed, pass>>
  /\ UNCHANGED <<echo, osig, heldBack, keys, run, unrestored>>

(* The pending keys are delivered when sigprocmask lets them through: the    *)
(* process is stopped, or ends.                                              *)
Deliver(ks) == run' = IF "int" \in ks THEN "killed" ELSE IF "tstp" \in ks THEN "stopped" ELSE run

(* Mutation: the mask is put back before the terminal. *)
Swapped ==
  /\ \/ At("echo", "mask") /\ heldBack' = osig /\ UNCHANGED echo
        /\ IF osig THEN UNCHANGED <<keys, run>> ELSE keys' = {} /\ Deliver(keys)
     \/ At("mask", "return") /\ echo' = TRUE /\ UNCHANGED <<heldBack, keys, run>>
  /\ UNCHANGED <<osig, keyed, pass, unrestored>>
(* The tcsetattr may fail here too. *)
Restore ==
  /\ \/ /\ At("echo", "mask") /\ UNCHANGED <<heldBack, keys, run>>
        /\ \/ echo' = TRUE /\ UNCHANGED unrestored
           \/ unrestored' = TRUE /\ UNCHANGED echo
     \/ At("mask", "return") /\ heldBack' = osig /\ UNCHANGED <<echo, unrestored>>
        /\ IF osig THEN UNCHANGED <<keys, run>> ELSE keys' = {} /\ Deliver(keys)
  /\ UNCHANGED <<osig, keyed, pass>>

getpass == Open \/ Block \/ NoEcho \/ Getc \/ Restore

Key(k) ==
  /\ run = "yes" /\ gpc # "return"
  /\ IF heldBack THEN keys' = keys \cup {k} /\ UNCHANGED run ELSE UNCHANGED keys /\ Deliver({k})
  /\ UNCHANGED <<gpc, echo, osig, heldBack, keyed, pass, unrestored>>

(* SIGQUIT is not in the set that is blocked: it ends the process wherever   *)
(* getpass() is.                                                             *)
QuitKey ==
  /\ run = "yes" /\ gpc # "return" /\ run' = "quit"
  /\ UNCHANGED <<gpc, echo, osig, heldBack, keys, keyed, pass, unrestored>>

Continue ==
  /\ run = "stopped" /\ run' = "yes"
  /\ UNCHANGED <<gpc, echo, osig, heldBack, keys, keyed, pass, unrestored>>

Next == getpass \/ QuitKey \/ Continue \/ \E k \in {"int", "tstp"} : Key(k)

-----------------------------------------------------------------------------
(* The terminal echoes again when the caller has it, after the return, and   *)
(* when the shell has it because the suspend key has stopped the process or  *)
(* the interrupt key has ended it, unless the tcsetattr at the end failed.   *)
(* Nothing is said of the quit key, which may leave the echo off.  The       *)
(* caller's mask is back at the return.                                      *)
EchoIsBack ==
  /\ gpc = "return" /\ run = "yes" => heldBack = osig
  /\ (gpc = "return" \/ run # "yes") /\ run # "quit" => echo \/ unrestored

(* buf holds the beginning of what was typed and has room for its null.      *)
PassFits == Len(pass) <= MAX_PASS_LEN /\ \A n \in DOMAIN pass : pass[n] = keyed[n]
=============================================================================
