------------------------------ MODULE MCMtShell ------------------------------
(* An instance of MtShell for TLC: a command "aa", a view's prompt that is    *)
(* shorter than that of the root view, and two characters to type.            *)
EXTENDS MtShell, MtTree

Text(name) == [type |-> "text", name |-> name, id |-> name, min |-> 0, max |-> 0]
Short == InitCmdLine([id |-> 1, items |-> <<Text(<<"a", "a">>)>>])
SomeChars == {"a", " "}
ExitLine == <<"a", " ">>
TwoPrompts == {<<">">>, <<"#", ">">>}
SomeTrees == {TreeOf(<<Short>>)}
==============================================================================
