------------------------------- MODULE MCFlow -------------------------------
(***************************************************************************)
(* Programs for the flow analysis.  The program asks for the header, hands *)
(* the answer through two detours in register 7, and reads the parameter   *)
(* from it.  Two functions can be called on the way: one is in variable 0, *)
(* the other is the method "m" of the object in register 6.                *)
(***************************************************************************)
EXTENDS Flow

KA == Str("a")
KB == Str("b")
KM == Str("m")

\* Register 10 holds the key "b", register 11 the key 0.
Prologue(f, g) == <<
    I("closure", 5, <<IntK(f)>>),
    I("setvar", NoReg, <<IntK(0), R(5)>>),
    I("closure", 5, <<IntK(g)>>),
    I("newobj", 6, <<>>),
    I("setprop", NoReg, <<R(6), KM, R(5)>>),
    I("mov", 10, <<KB>>),
    I("mov", 11, <<IntK(0)>>),
    I("call", 7, <<R(0), Hdr>>),
    I("call", 7, <<R(0), R(7)>>)>>
Epilogue == <<
    I("getprop", 9, <<R(7), Pow>>),
    I("ret", NoReg, <<R(9)>>)>>

\* The detours; at is where the instructions go.
Detour(k, at) ==
    CASE k = "none" -> <<>>
      [] k = "key" -> <<I("getprop", 7, <<R(7), KA>>)>>
      [] k = "index" -> <<I("getprop", 7, <<R(7), R(10)>>)>>
      [] k = "variable" -> <<I("setvar", NoReg, <<IntK(1), R(7)>>), I("getvar", 7, <<IntK(1)>>)>>
      [] k = "field" -> <<I("setprop", NoReg, <<R(6), KB, R(7)>>), I("getprop", 7, <<R(6), KB>>)>>
      [] k = "computed" -> <<I("setprop", NoReg, <<R(6), R(10), R(7)>>), I("getprop", 7, <<R(6), R(10)>>)>>
      [] k = "copy" -> <<I("getprop", 8, <<R(7), R(10)>>), I("setprop", NoReg, <<R(6), R(10), R(8)>>),
                         I("getprop", 7, <<R(6), KB>>)>>
      [] k = "array" -> <<I("newarr", 8, <<IntK(1)>>), I("setprop", NoReg, <<R(8), IntK(0), R(7)>>),
                          I("getprop", 7, <<R(8), R(11)>>)>>
      [] k = "items" -> <<I("newarr", 8, <<IntK(1)>>), I("setprop", NoReg, <<R(8), R(11), R(7)>>),
                          I("getprop", 7, <<R(8), IntK(0)>>)>>
      [] k = "push" -> <<I("newarr", 8, <<IntK(0)>>), I("newarr", 9, <<IntK(1)>>),
                         I("setprop", NoReg, <<R(9), IntK(0), R(7)>>), I("getprop", 12, <<R(8), Str("push")>>),
                         I("callm", NoReg, <<R(8), R(12), R(9)>>), I("getprop", 7, <<R(8), IntK(1)>>)>>
      [] k = "function" -> <<I("getvar", 9, <<IntK(0)>>), I("call", 7, <<R(9), R(7)>>)>>
      [] k = "list" -> <<I("getvar", 9, <<IntK(0)>>), I("call", 8, <<R(9), R(7)>>),
                         I("getprop", 7, <<R(8), IntK(0)>>)>>
      [] k = "method" -> <<I("newarr", 8, <<IntK(1)>>), I("setprop", NoReg, <<R(8), IntK(0), R(7)>>),
                           I("getprop", 9, <<R(6), KM>>), I("callm", NoReg, <<R(6), R(9), R(8)>>),
                           I("mov", 7, <<R(2)>>)>>
      [] k = "apply" -> <<I("newarr", 8, <<IntK(0)>>), I("getvar", 9, <<IntK(0)>>),
                          I("callm", NoReg, <<R(7), R(9), R(8)>>), I("mov", 7, <<R(2)>>)>>
      [] k = "callback" -> <<I("getvar", 9, <<IntK(0)>>), I("call", 7, <<R(0), R(9), R(7)>>)>>
      [] k = "exception" -> <<I("catch", NoReg, <<IntK(at + 2)>>), I("throw", NoReg, <<R(7)>>),
                              I("getexc", 7, <<>>)>>
      [] k = "guarded" -> <<I("catch", NoReg, <<IntK(at + 4)>>), I("getvar", 9, <<IntK(0)>>),
                            I("call", 7, <<R(9), R(7)>>), I("jump", NoReg, <<IntK(at + 6)>>),
                            I("varexc", NoReg, <<IntK(1)>>), I("getvar", 7, <<IntK(1)>>)>>
      [] k = "choice" -> <<I("branch", NoReg, <<R(10), IntK(at + 2)>>), I("getprop", 7, <<R(7), KA>>)>>
      [] k = "loop" -> <<I("getprop", 8, <<R(7), KA>>), I("mov", 7, <<R(8)>>),
                         I("branch", NoReg, <<R(10), IntK(at)>>)>>
      [] k = "arithmetic" -> <<I("op", 7, <<R(7), R(11)>>)>>
      [] k = "config" -> <<I("getprop", 7, <<R(0), Dyn>>)>>
      [] k = "fresh" -> <<I("newobj", 7, <<>>)>>

\* The functions, of argument 4.
Body(k, at) ==
    CASE k = "same" -> <<I("ret", NoReg, <<R(4)>>)>>
      [] k = "part" -> <<I("getprop", 5, <<R(4), KA>>), I("ret", NoReg, <<R(5)>>)>>
      [] k = "arguments" -> <<I("getprop", 5, <<R(3), IntK(0)>>), I("ret", NoReg, <<R(5)>>)>>
      [] k = "this" -> <<I("this", 5, <<>>), I("ret", NoReg, <<R(5)>>)>>
      [] k = "fails" -> <<I("throw", NoReg, <<R(4)>>)>>
      [] k = "recursive" -> <<I("setself", NoReg, <<IntK(0)>>), I("branch", NoReg, <<R(4), IntK(at + 5)>>),
                              I("getvar", 6, <<IntK(0)>>), I("call", 5, <<R(6), R(4)>>),
                              I("ret", NoReg, <<R(5)>>), I("ret", NoReg, <<R(4)>>)>>
      [] k = "array" -> <<I("newarr", 5, <<IntK(1)>>), I("setprop", NoReg, <<R(5), IntK(0), R(4)>>),
                          I("getprop", 6, <<R(5), R(4)>>), I("ret", NoReg, <<R(6)>>)>>
      [] k = "list" -> <<I("newarr", 5, <<IntK(1)>>), I("setprop", NoReg, <<R(5), IntK(0), R(4)>>),
                         I("ret", NoReg, <<R(5)>>)>>

CONSTANTS Firsts, Seconds, Bodies   \* the detours and functions to combine

Assembled(d1, d2, f, g) ==
    LET n1 == Len(Detour(d1, 1))
        n2 == Len(Detour(d2, 1))
        end == 9 + n1 + n2 + 2
    IN  Prologue(end + 1, end + 1 + Len(Body(f, 1))) \o Detour(d1, 10) \o Detour(d2, 10 + n1) \o Epilogue
          \o Body(f, end + 1) \o Body(g, end + 1 + Len(Body(f, 1)))

\* Programs that build() refuses, or that ask for nothing.
Malformed == {
    <<>>,
    <<I("jump", NoReg, <<IntK(9)>>)>>,
    <<I("closure", 5, <<IntK(0)>>)>>,
    <<I("getvar", 5, <<IntK(MaxVariable)>>)>>,
    <<I("mov", MaxRegister, <<IntK(0)>>), I("ret", NoReg, <<R(4)>>)>>,
    <<I("getprop", 5, <<R(0), Pow>>), I("ret", NoReg, <<R(5)>>)>>}

\* The function that returns a list is called only where an item of the list is read:
\* the analysis loses a list that meets another value where branches join, and then
\* what is in it.
ListsAreRead(c) == c[3] = "list" => {c[1], c[2]} \cap {"function", "callback", "guarded", "apply"} = {}

Family ==
    Malformed \cup
    {Assembled(c[1], c[2], c[3], c[4]) :
        c \in {d \in Firsts \X Seconds \X Bodies \X {"part", "this"} : ListsAreRead(d)}}
=============================================================================
