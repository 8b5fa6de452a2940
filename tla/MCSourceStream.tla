--------------------------- MODULE MCSourceStream ---------------------------
(* Two jobs of one node with a big transaction each, in one after a query  *)
(* that is not replicated.  One of them is shut down, or its requests      *)
(* fail, or the other is told to finish                                    *)
EXTENDS SourceStream

MCJobs == 1 .. 2
MCStream ==
  << << <<"large", "xid">> >>,
     << <<"skip">>, <<"large", "small", "xid">> >> >>
MCScenarios ==
  { [stop |-> {1}, fault |-> {}, finish |-> {}],
    [stop |-> {}, fault |-> {1}, finish |-> {}],
    [stop |-> {}, fault |-> {}, finish |-> {2}] }
=============================================================================
