---------------------------- MODULE MCScheduler ----------------------------
(* Instances of the scheduler for model checking: which instructions and   *)
(* faults the tasks of each run exercise.                                  *)
EXTENDS Scheduler

TaskOps == {"spawn", "cancel", "join_all", "select", "provider"}
ResourceOps == {"spawn", "cancel", "select", "try", "resource", "provider",
                "provider_err", "fault", "drop_fault"}
ChannelOps == {"spawn", "cancel", "channel", "send", "recv", "close"}
StreamOps == {"spawn", "move", "cancellable", "channel", "send", "recv", "close", "stream"}
TerminationOps == {"spawn", "select", "provider", "channel", "send", "recv"}

SelectProviderOps == {"spawn", "select", "provider"}
TryOps == {"spawn", "try"}
SelectOps == {"spawn", "select"}
ContendedSendOps == {"spawn", "channel", "send", "recv"}
CloseOps == {"channel", "send", "recv", "close"}

StreamCapacities == {-1, 0, 2}
=============================================================================
