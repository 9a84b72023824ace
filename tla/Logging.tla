------------------------------- MODULE Logging -------------------------------
(***************************************************************************)
(* Logging (src/src/tooling/logging.rs): emit_log drops what the kernel    *)
(* says below the threshold and hands the rest to the function bound to    *)
(* the log contract, or writes it.  A bound logger may be a composition,   *)
(* whose steps the kernel logs in turn; it may be the one that keeps what  *)
(* it gets in the spec log of the context; and it may fail.                *)
(***************************************************************************)
EXTENDS ToolingData, SequencesExt

(* trace, debug, info, warn, error, fatal.                                 *)
Ranks == 0..5
Info  == 2
Error == 4

Loggers == {"none",       \* no binding, or to one of the kernel's functions
            "capture",    \* impl/testing/log-capture
            "component",  \* a composition
            "missing"}    \* bound to a name that is not registered

VARIABLES threshold,  \* fatal unless the environment or --log-level says other
          logger,
          cancelled,
          running,    \* the compositions that are logging, innermost last
          spec,       \* the spec log of the context
          truncated   \* spec_logs_truncated

vars == <<threshold, logger, cancelled, running, spec, truncated>>

TypeOK ==
  /\ threshold \in Ranks
  /\ logger \in Loggers
  /\ cancelled \in BOOLEAN /\ truncated \in BOOLEAN
  /\ running \in Seq({"start", "call", "end"})
  /\ running # <<>> => logger = "component"
  /\ spec \in Seq({"entry", "notice"})

Init ==
  /\ threshold \in Ranks
  /\ logger \in Loggers
  /\ cancelled = FALSE
  /\ running = <<>>
  /\ spec = <<>>
  /\ truncated = FALSE

(* Faulty variant: that the spec log was cut is not remembered.            *)
PushSpecLog_Forgets ==
  /\ spec' = Append(spec, IF Len(spec) >= SpecLogLimit THEN "notice" ELSE "entry")
  /\ UNCHANGED truncated

PushSpecLog ==
  IF Len(spec) < SpecLogLimit
    THEN spec' = Append(spec, "entry") /\ UNCHANGED truncated
    ELSE /\ truncated' = TRUE
         /\ spec' = IF truncated THEN spec ELSE Append(spec, "notice")

(* Faulty variant: a bound logger gets everything.                         *)
Dropped_Unbound(kernel, rank) == kernel /\ rank < threshold /\ logger = "none"

Dropped(kernel, rank) == kernel /\ rank < threshold

(* emit_log of an entry that is well formed, by what runs in rest: it is   *)
(* dropped, written, or given to the logger.  That is called in the context *)
(* at hand, so in a cancelled run it fails, like one that is missing, and  *)
(* a notice is written; the caller does not learn of it.                   *)
Emit(kernel, rank, rest) ==
  /\ IF Dropped(kernel, rank) \/ cancelled \/ logger \in {"none", "missing"}
       THEN running' = rest /\ UNCHANGED <<spec, truncated>>
       ELSE \/ /\ logger = "capture"
               /\ running' = rest
               /\ PushSpecLog
            \/ /\ logger = "component"
               /\ Len(rest) < MaxNesting
               /\ running' = Append(rest, "start")
               /\ UNCHANGED <<spec, truncated>>
  /\ UNCHANGED <<threshold, logger, cancelled>>

(* The program logs, or the kernel about it.  The steps of a logger do not *)
(* themselves call the log contract.                                       *)
Log ==
  /\ running = <<>>
  /\ \E kernel \in BOOLEAN, rank \in Ranks : Emit(kernel, rank, <<>>)

Advanced(pc) == Append(Front(running), pc)

(* run_steps begins the step of a logger, and says so.                     *)
LoggerStep ==
  /\ running # <<>> /\ Last(running) = "start" /\ ~ cancelled
  /\ Emit(TRUE, Info, Advanced("call"))

(* The step has ended.                                                     *)
LoggerStepEnds ==
  /\ running # <<>> /\ Last(running) = "call"
  /\ \/ ~ cancelled /\ Emit(TRUE, Info, Advanced("end"))
     \/ Emit(TRUE, Error, Advanced("end"))

(* The composition returns; when it failed a notice is written.            *)
LoggerReturns ==
  /\ running # <<>>
  /\ \/ Last(running) = "end"
     \/ Last(running) = "start" /\ cancelled
  /\ running' = Front(running)
  /\ UNCHANGED <<threshold, logger, cancelled, spec, truncated>>

Cancel ==
  /\ cancelled' = TRUE
  /\ UNCHANGED <<threshold, logger, running, spec, truncated>>

Next == Log \/ LoggerStep \/ LoggerStepEnds \/ LoggerReturns \/ Cancel
-----------------------------------------------------------------------------
(* Properties.                                                             *)

(* A logger that is a composition is not called about its own steps while  *)
(* the threshold is above error, as it is by default; below, what the      *)
(* kernel says of its steps goes to the logger again, without end.         *)
LoggerNotReentered == threshold > Error => Len(running) <= 1

(* The spec log keeps the first entries, in order, and then one notice     *)
(* that it was cut.                                                        *)
SpecLogBounded ==
  /\ Len(spec) <= SpecLogLimit + 1
  /\ \A k \in DOMAIN spec : spec[k] = "notice" <=> k = SpecLogLimit + 1
  /\ truncated <=> Len(spec) = SpecLogLimit + 1
=============================================================================
