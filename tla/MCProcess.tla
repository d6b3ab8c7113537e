----------------------------- MODULE MCProcess -----------------------------
EXTENDS Process

Siblings == {"parent", "fork", "exit", "wait"}
Threads == {"thread", "exit", "kill"}
Loaders == {"vfork", "exec", "exit"}
Handlers == {"sigaction", "kill", "sigreturn"}
Faults == {"badtid", "fault", "sigsuspend", "kill", "sigprocmask", "tkill"}

\* How many CPUs run programs that make which calls.
MCMachines ==
  {<<1, Threads>>, <<2, {"thread", "exit"}>>, <<1, Loaders>>, <<2, Loaders>>, <<2, Siblings>>, <<1, Handlers>>, <<1, Faults>>}
=============================================================================
