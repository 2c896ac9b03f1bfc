------------------------------ MODULE MCLogger ------------------------------
(***************************************************************************)
(* Two loggers as in test_hook.cpp and zyx_thread.cpp: both write to       *)
(* std::cout and to test.txt.                                              *)
(***************************************************************************)
EXTENDS LoggerInv

MCConfig ==
  [log_main |-> [level |-> "INFO", write_std |-> TRUE, file |-> <<"test.txt">>],
   log1     |-> [level |-> "ERROR", write_std |-> TRUE, file |-> <<"test.txt">>]]

\* A short one: its items are a %, the message and the end of the line.
MCPattern == <<"%", "%", "m", "%", "n">>

MCEvents == {"accept", "hello", "debug", "fatal"}

MCSource ==
  [accept |-> <<"log_main", "INFO">>, hello |-> <<"log_main", "WARN">>,
   debug |-> <<"log_main", "DEBUG">>, fatal |-> <<"log1", "FATAL">>]
=============================================================================
