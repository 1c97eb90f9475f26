------------------------------ MODULE LogSink ------------------------------
(***************************************************************************)
(* What the Logger promises: a message is printed whole and at once, and   *)
(* only if its level reaches the threshold and the console is enabled at   *)
(* that very moment.                                                       *)
(***************************************************************************)
EXTENDS Integers, Sequences

CONSTANTS Levels, Messages

VARIABLES threshold, enabled, lines

sinkVars == <<threshold, enabled, lines>>

SinkInit == threshold \in Levels /\ enabled = FALSE /\ lines = <<>>

Emit(m) ==
  /\ enabled /\ m.level >= threshold
  /\ lines' = Append(lines, m)
  /\ UNCHANGED <<threshold, enabled>>

SinkNext ==
  \/ \E m \in Messages : Emit(m)
  \/ threshold' \in Levels /\ UNCHANGED <<enabled, lines>>
  \/ enabled' \in BOOLEAN /\ UNCHANGED <<threshold, lines>>

SinkSpec == SinkInit /\ [][SinkNext]_sinkVars
=============================================================================
