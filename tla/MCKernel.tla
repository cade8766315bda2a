------------------------------- MODULE MCKernel -------------------------------
(* Small instances of the kernel's services for TLC. *)
EXTENDS Kernel

CONSTANTS v1, v2, o1, o2, p1, p2, p3, h1, h2, k1, ok   \* model values

\* No data, data of odd and even length, the probe of a listener, and bytes
\* whose sum carries; a port with a socket, one without, the logger's.
MCPayloads == {<<>>, <<5>>, <<82, 80, 105>>, <<255, 255, 1, 2>>}
MCHere == [mac |-> <<1, 2, 3, 4, 5, 6>>, ip |-> <<129, 199, 157, 174>>]
MCThere == [mac |-> <<184, 39, 235, 4, 5, 7>>, ip |-> <<129, 199, 157, 22>>]

\* Formats of each directive next to digits and zeros.
MCItems == <<
  [text |-> <<"3">>, args |-> <<>>, shows |-> <<"3">>],
  [text |-> <<"0">>, args |-> <<>>, shows |-> <<"0">>],
  [text |-> <<"%", "%">>, args |-> <<>>, shows |-> <<"%">>],
  [text |-> <<"%", "u">>, args |-> <<12>>, shows |-> <<"1", "2">>],
  [text |-> <<"%", "3", "u">>, args |-> <<7>>, shows |-> <<" ", " ", "7">>],
  [text |-> <<"%", "0", "3", "d">>, args |-> <<-4>>, shows |-> <<"-", "0", "0", "4">>],
  [text |-> <<"%", "0", "2", "X">>, args |-> <<171>>, shows |-> <<"A", "B">>],
  [text |-> <<"%", "s">>, args |-> <<<<"%", "u">>>>, shows |-> <<"%", "u">>],
  [text |-> <<"%", "I">>, args |-> <<<<10, 0, 0, 9>>>>,
   shows |-> <<"1", "0", ".", "0", ".", "0", ".", "9">>],
  [text |-> <<"%", "M">>, args |-> <<<<184, 39, 235, 0, 1, 10>>>>,
   shows |-> <<"B", "8", ":", "2", "7", ":", "E", "B", ":", "0", "0", ":", "0", "1", ":", "0", "A">>],
  [text |-> <<"%", "c">>, args |-> <<<<"%">>>>, shows |-> <<"%">>]>>

\* Two devices with drivers.
MCDrivers == [n \in 0..1 |-> 10 + n]
=============================================================================
