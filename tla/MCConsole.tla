----------------------------- MODULE MCConsole ------------------------------
(***************************************************************************)
(* Two callers and a screen of two lines.  Either one of them formats and  *)
(* the other has nothing to say, for many formats and arguments, or both   *)
(* print messages with newlines and full lines.                            *)
(***************************************************************************)
EXTENDS Console

Args(n) ==
    [int |-> IF n = -128 THEN -32 ELSE n, uint |-> n % 2 ^ IntBits, ll |-> n, ull |-> n % 2 ^ LongBits,
     char |-> "c", string |-> <<"s", "t">>]
Call(level, fmt, n) == [level |-> level, fmt |-> fmt, args |-> Args(n)]
Silent == Call("PRINTK_INFO", <<>>, 0)

Short == SeqOf({"a", "%", "#", "d", "x", "X", "s", "l"}, 3)
Long  == {<<"%", "l", "l", conv, "a">> : conv \in {"d", "u", "x", "X", "l"}} \cup
         {<<"%", flag, "l", "l", conv>> : flag \in {"#", "0"}, conv \in {"d", "x"}} \cup
         {<<"%", "u", "%", "c">>, <<"%", "-", "i">>}

\* The smallest and the largest int, some of other lengths, and, for the long
\* long arguments, the smallest one.
Numbers == {0, 9, 10, -12, -32, 31, -128}

Formatting ==
    {<<Call("PRINTK_DEBUG", fmt, 12), Silent>> : fmt \in Short} \cup
    {<<Call("PRINTK_DEBUG", fmt, n), Silent>> :
        fmt \in Long \cup {<<"%", "d">>, <<"%", "X">>}, n \in Numbers}

Messages == {<<"\n">>, <<"a", "b">>, <<"a", "\n">>, <<"\n", "\n">>}
Together ==
    {<<Call("PRINTK_WARN", f, 0), Call("PRINTK_ERROR", g, 0)>> : f \in Messages, g \in Messages}

MCCalls == Formatting \cup Together
MCTask == {1, 2}
MCBlank == <<" ", "default">>
MCNewline == <<"\n", "none">>
=============================================================================
