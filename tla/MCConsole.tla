----------------------------- MODULE MCConsole ----------------------------
(* Values of the constants of Console for TLC.                             *)
EXTENDS Console

Text(s) == [is |-> "text", value |-> s]
Item(is, value) == [is |-> is, value |-> value]

(* Each control character, text that fills a line, and every conversion.   *)
Printed == {<<Text(<<c>>)>> : c \in {"newline", "return", "backspace", "tab"}} \cup
           {<<Text(<<"h", "e", "l", "l", "o">>)>>,
            <<Item("c", "k"), Item("%", 0), Item("end", 0)>>,
            <<Item("s", <<"o", "k", "newline">>), Item("unknown", "q")>>,
            <<Item("d", -10), Item("u", 9)>>,
            <<Item("x", 171), Item("o", 8), Item("i", 0)>>}

(* In the line, across the end of a line, at the end, and outside.         *)
Placed == {<<42, 1, 0>>, <<-17, 3, 0>>, <<99, 3, 1>>, <<5, 4, 0>>}
============================================================================
