--------------------------- MODULE MCSourceTables ---------------------------
(* An instance of SourceTables: schema a is replicated whole, under the    *)
(* name A and without the table x; of schema b the tables p (as q) and w   *)
(* (with a Where).                                                         *)
EXTENDS SourceTables

None == [x \in {"p", "c", "w", "x", "n", "o"} |-> ""]
MCConfig ==
  [doDb |-> <<[schema |-> "a", regex |-> {}, rename |-> [x \in {"a", "b"} |-> "A"], tables |-> << >>],
              [schema |-> "b", regex |-> {}, rename |-> [x \in {"a", "b"} |-> ""],
               tables |-> <<[table |-> "p", regex |-> {}, rename |-> [None EXCEPT !.p = "q"], where |-> FALSE],
                            [table |-> "w", regex |-> {}, rename |-> None, where |-> TRUE]>>]>>,
   ignoreDb |-> <<[schema |-> "a", tables |-> {"x"}]>>,
   expand |-> FALSE,
   filter |-> {"NoDDLTruncate", "NoDMLDelete"}]

MCInitTables == [n \in {<<"a", "p">>, <<"a", "x">>, <<"b", "p">>, <<"b", "w">>} |-> << >>]
MCCreates == {[name |-> <<"a", "c">>, fk |-> <<<<"", "p">>>>], [name |-> <<"a", "p">>, fk |-> << >>],
              [name |-> <<"a", "x">>, fk |-> << >>],
              [name |-> <<"b", "p">>, fk |-> <<<<"a", "p">>>>]}
MCDrops == {<<<<"a", "c">>>>, <<<<"b", "p">>>>, <<<<"a", "x">>, <<"a", "p">>>>}
MCRenames == {<<<<<<"a", "p">>, <<"a", "n">>>>>>,
              <<<<<<"a", "p">>, <<"a", "o">>>>, <<<<"a", "n">>, <<"a", "p">>>>>>}
=============================================================================
