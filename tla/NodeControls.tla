---------------------------- MODULE NodeControls ----------------------------
(***************************************************************************)
(* The user's ends of a node of main.cpp: the console at the end of        *)
(* MyMesh::loop and the button that puts the node to sleep.  A pass of     *)
(* loop looks at the console, then at the button; the wait for an answer   *)
(* from the mesh runs MyMesh::loop, and so the console, many times between *)
(* two looks at the button.                                                *)
(***************************************************************************)
EXTENDS Naturals

CONSTANTS
  LongPress,     \* ticks in LONG_PRESS_DURATION_MS
  LineMax        \* sizeof(command) - 1

ASSUME ControlsAssumption == LongPress \in Nat \ {0} /\ LineMax \in Nat \ {0}

VARIABLES
  pc,            \* "off", "asleep", "wake", "console", "button", "halted"
  line,          \* strlen(command), up to its size
  full,          \* command[LineMax] holds '\r'
  tmp_buf,       \* the octets after command: "zero" at once, or some that end in "cr" or "other"
  button,        \* the user button is down
  buttonWasPressed,
  pressTime,     \* ticks since buttonPressStart
  held,          \* history: ticks the button has been down
  missed,        \* history: it was up since the press was seen, but not seen up
  released       \* history: it was up since the node was started

consoleVars == <<line, full, tmp_buf>>
buttonVars == <<button, buttonWasPressed, pressTime, held, missed, released>>
controlsVars == <<pc, consoleVars, buttonVars>>

ControlsInit ==
  /\ pc = "off"
  /\ line = 0 /\ full = FALSE /\ tmp_buf = "zero"
  /\ button = FALSE /\ buttonWasPressed = FALSE /\ pressTime = 0
  /\ held = 0 /\ missed = FALSE /\ released = TRUE

----------------------------------------------------------------------------
(* Power *)

(* Without power all memory is lost: it is next as its initialisers leave  *)
(* it.                                                                     *)
PowerDown(state) ==
  /\ pc' = state
  /\ buttonWasPressed' = FALSE /\ pressTime' = 0 /\ missed' = FALSE /\ held' = 0
  /\ line' = 0 /\ full' = FALSE /\ tmp_buf' = "zero"
  /\ UNCHANGED <<button, released>>

PowerLoss == pc # "off" /\ PowerDown("off")

(* Faulty variant: the node goes on while the button is down. *)
AtOnce == TRUE

Released == ~button

(* Power, ext0 wakeup on the button's low level, and "Wait for button      *)
(* release to avoid immediate re-sleep"; setup may fail on the way.        *)
Setup ==
  /\ \/ pc = "off" /\ pc' \in {"console", "halted"} /\ released' = TRUE
     \/ pc = "asleep" /\ button /\ pc' = "wake" /\ released' = FALSE
     \/ pc = "wake" /\ Released /\ pc' \in {"console", "halted"} /\ UNCHANGED released
  /\ UNCHANGED <<consoleVars, button, buttonWasPressed, pressTime, held, missed>>

----------------------------------------------------------------------------
(* The console *)

(* handleCommand: of what a command changes only tmp_buf matters here,     *)
(* which card and import leave their octets in.                            *)
HandleCommand ==
  /\ line' = 0 /\ full' = FALSE
  /\ tmp_buf' \in {tmp_buf, "zero", "cr", "other"}

(* Faulty variant: a line that fills the buffer is not closed. *)
NeverFull(n) == FALSE

Fills(n) == n = LineMax

(* What the terminal has sent, as far as it fits, is appended; a line is   *)
(* complete when its last character is '\r'.  A full line has lost its     *)
(* terminator to '\r': strlen runs on into tmp_buf, nothing is read, and   *)
(* the line is complete if what follows ends in '\r' too or is not there.  *)
Console ==
  /\ pc = "console"
  /\ pc' \in {"console", "button"}
  /\ \/ /\ ~full
        /\ \E n \in 0..(LineMax - line) :
             \/ line' = line + n /\ full' = Fills(line + n) /\ UNCHANGED tmp_buf
             \/ n > 0 /\ HandleCommand
     \/ full /\ tmp_buf # "other" /\ HandleCommand
     \/ full /\ tmp_buf = "other" /\ UNCHANGED consoleVars
  /\ UNCHANGED buttonVars

----------------------------------------------------------------------------
(* The button *)

(* checkUserButton. *)
CheckUserButton ==
  /\ pc = "button"
  /\ \/ /\ button /\ buttonWasPressed /\ pressTime >= LongPress
        /\ PowerDown("asleep")
     \/ /\ pc' = "console"
        /\ \/ /\ button /\ ~buttonWasPressed
              /\ buttonWasPressed' = TRUE /\ pressTime' = 0 /\ missed' = FALSE
           \/ /\ button /\ buttonWasPressed /\ pressTime < LongPress
              /\ UNCHANGED <<buttonWasPressed, pressTime, missed>>
           \/ /\ ~button
              /\ buttonWasPressed' = FALSE /\ missed' = FALSE
              /\ UNCHANGED pressTime
        /\ UNCHANGED <<button, held, released, consoleVars>>

(* The user, at any time. *)
PressOrRelease ==
  /\ button' = ~button
  /\ held' = 0
  /\ missed' = (missed \/ (button /\ buttonWasPressed))
  /\ released' = (released \/ button)
  /\ UNCHANGED <<pc, buttonWasPressed, pressTime, consoleVars>>

(* LongPress bounds both counts: beyond it nothing differs. *)
ControlsTick ==
  /\ pc \in {"console", "button"}
  /\ (button /\ held < LongPress) \/ (buttonWasPressed /\ pressTime < LongPress)
  /\ held' = IF button /\ held < LongPress THEN held + 1 ELSE held
  /\ pressTime' = IF buttonWasPressed /\ pressTime < LongPress THEN pressTime + 1 ELSE pressTime
  /\ UNCHANGED <<pc, button, buttonWasPressed, missed, released, consoleVars>>

ControlsNext ==
  \/ PowerLoss \/ Setup \/ Console \/ CheckUserButton
  \/ PressOrRelease \/ ControlsTick

(* loop is called for ever, the wait for an answer ends, and time passes. *)
Fairness ==
  /\ WF_controlsVars(Console) /\ SF_controlsVars(Console /\ pc' = "button")
  /\ WF_controlsVars(CheckUserButton)
  /\ WF_controlsVars(ControlsTick)

ControlsSpec == ControlsInit /\ [][ControlsNext]_controlsVars /\ Fairness

----------------------------------------------------------------------------
(* Correctness *)

(* A line stays in its buffer. *)
ControlsTypeOK ==
  /\ pc \in {"off", "asleep", "wake", "console", "button", "halted"}
  /\ line \in 0..LineMax /\ full \in BOOLEAN /\ tmp_buf \in {"zero", "cr", "other"}
  /\ button \in BOOLEAN /\ buttonWasPressed \in BOOLEAN
  /\ pressTime \in 0..LongPress /\ held \in 0..LongPress
  /\ missed \in BOOLEAN /\ released \in BOOLEAN
  /\ full <=> line = LineMax

(* The node goes to sleep when the button was down for a long press, or    *)
(* was let go and pressed again between two looks at it (a wait for the    *)
(* mesh may lie between them); and not again by the press that woke it.    *)
SleepMeansHeld ==
  [][pc # "asleep" /\ pc' = "asleep" => released /\ (held >= LongPress \/ missed)]_controlsVars

(* A line that overflows the buffer is handled like any other and the      *)
(* console goes on, unless tmp_buf holds what card or import left there.   *)
ConsoleRecovers == (line = LineMax /\ tmp_buf # "other") ~> (line = 0)

============================================================================
