------------------------------ MODULE HexCodec ------------------------------
(***************************************************************************)
(* bin2str and str2bin of App/crypto/common.cpp, which turn bytes into     *)
(* hexadecimal digits and back.  A byte string ends with a zero byte and a *)
(* text of digits with a character that is none.  str2bin moves its        *)
(* pointer in both operands of a sum: a build may take the low digit from  *)
(* the first character as well as from the second.                         *)
(***************************************************************************)
EXTENDS Integers, Sequences

CONSTANTS
  None,
  Strings,       \* what the byte strings hold before the zero byte at their end
  Texts,         \* texts of digits, to be converted as they are
  Sizes          \* values of the arguments size, which are ints

Bytes == 0 .. 255
Digits == 0 .. 15

(* What the constants are; the theorem assumes it. *)
HexSizes ==
  /\ Strings \subseteq Seq(Bytes)
  /\ Texts \subseteq Seq(Digits)
  /\ Sizes \subseteq Int
  /\ None \notin Seq(Bytes)

VARIABLES
  pc, in, text, out,
  bin_size, str_size,   \* the arguments of the two functions
  size,                 \* what is left of the one in progress
  pt1,                  \* the position that is read next
  low_first             \* the order in which the build evaluates the sum

vars == <<pc, in, text, out, bin_size, str_size, size, pt1, low_first>>

Init ==
  /\ out = <<>> /\ pt1 = 1
  /\ bin_size \in Sizes /\ str_size \in Sizes
  /\ low_first \in BOOLEAN
  /\ \/ /\ pc = "bin2str" /\ size = bin_size
        /\ text = <<>> /\ \E s \in Strings : in = Append(s, 0)
     \/ /\ pc = "str2bin" /\ size = str_size
        /\ text \in Texts /\ in = None

-----------------------------------------------------------------------------
TwoDigits(byte) == <<byte \div 16, byte % 16>>      \* sprintf of "%02X"

(* The condition of do ... while: the next byte, and then the size. *)
Ends(next, left) == next = 0 \/ left = 0

(***************************************************************************)
(* A byte becomes two digits.  The condition reads the byte after it,      *)
(* whatever the size, and that of an empty string is past its end.  A size *)
(* that is zero or less is passed by size-- and never comes back to zero.  *)
(***************************************************************************)
bin2str ==
  /\ pc = "bin2str"
  /\ text' = text \o TwoDigits(in[pt1])
  /\ size' = size - 1
  /\ pt1' = pt1 + 1
  /\ pc' = IF pt1 = Len(in) THEN "past_end"
           ELSE IF Ends(in[pt1 + 1], size - 1) THEN "text" ELSE "bin2str"
  /\ UNCHANGED <<in, out, bin_size, str_size, low_first>>

(* The text goes to str2bin. *)
Convert ==
  /\ pc = "text"
  /\ pc' = "str2bin"
  /\ size' = str_size
  /\ pt1' = 1
  /\ UNCHANGED <<in, text, out, bin_size, str_size, low_first>>

Byte(first, second) == IF low_first THEN 16 * second + first ELSE 16 * first + second

(* The condition of while: the next character, and then the size. *)
More == pt1 <= Len(text) /\ size # 0

(* Two characters become a byte.  If the second is the end of the text, it *)
(* is taken for a digit and the condition then reads what comes after it.  *)
str2bin ==
  /\ pc = "str2bin" /\ More
  /\ size' = size - 1
  /\ pt1' = pt1 + 2
  /\ IF pt1 = Len(text)
     THEN pc' = "past_end" /\ out' = out
     ELSE pc' = pc /\ out' = Append(out, Byte(text[pt1], text[pt1 + 1]))
  /\ UNCHANGED <<in, text, bin_size, str_size, low_first>>

Finish ==
  /\ pc = "str2bin" /\ ~More
  /\ pc' = "done"
  /\ UNCHANGED <<in, text, out, bin_size, str_size, size, pt1, low_first>>

Next == bin2str \/ Convert \/ str2bin \/ Finish

Spec == Init /\ [][Next]_vars

-----------------------------------------------------------------------------
(***************************************************************************)
(*                              Properties                                 *)
(***************************************************************************)

(* bin2str takes k bytes: up to the first zero byte behind the first one,  *)
(* or as many as its size says, if that comes first.                       *)
Takes(k) ==
  /\ \A n \in 2 .. k : in[n] # 0
  /\ bin_size \notin 1 .. k - 1
  /\ in[k + 1] = 0 \/ bin_size = k

(* There and back: str2bin returns the bytes that bin2str took, all of     *)
(* them or as many as its own size allows; each as it was, or each with    *)
(* its halves exchanged, as the build evaluates the sum.                   *)
Exchanged(byte) == 16 * (byte % 16) + byte \div 16

RoundTrip == pc = "done" /\ in # None =>
  \E k \in 1 .. Len(in) - 1 :
    /\ Takes(k)
    /\ Len(out) = IF str_size \in 0 .. k THEN str_size ELSE k
    /\ \A n \in 1 .. Len(out) : out[n] = IF low_first THEN Exchanged(in[n]) ELSE in[n]

(* bin2str leaves its string for the empty one and for no other, whatever  *)
(* the sizes; str2bin leaves its text only for one with half a byte, which *)
(* bin2str never writes.                                                   *)
PastEndOnlyIfMalformed ==
  /\ pc = "past_end" => IF in = None THEN Len(text) % 2 = 1 ELSE Len(in) = 1
  /\ pc \in {"text", "str2bin", "done"} /\ in # None => Len(in) > 1

-----------------------------------------------------------------------------
(* The text is that of the first k bytes, and neither the string nor the   *)
(* size ends before them.                                                  *)
Encodes(k) ==
  /\ Len(text) = 2 * k
  /\ \A n \in 1 .. k : text[2 * n - 1] = in[n] \div 16 /\ text[2 * n] = in[n] % 16
  /\ \A n \in 2 .. k : in[n] # 0
  /\ bin_size \notin 1 .. k - 1

(* out is what the text up to pt1 says, and size has been counted along.   *)
Decoded ==
  /\ pt1 = 2 * Len(out) + 1
  /\ 2 * Len(out) <= Len(text)
  /\ size = str_size - Len(out)
  /\ str_size \notin 0 .. Len(out) - 1
  /\ \A n \in 1 .. Len(out) : out[n] = Byte(text[2 * n - 1], text[2 * n])

Types ==
  /\ pc \in {"bin2str", "text", "str2bin", "done", "past_end"}
  /\ in = None \/ (in \in Seq(Bytes) /\ Len(in) >= 1 /\ in[Len(in)] = 0)
  /\ text \in Seq(Digits) /\ out \in Seq(Int)
  /\ bin_size \in Int /\ str_size \in Int /\ size \in Int
  /\ pt1 \in Nat \ {0} /\ low_first \in BOOLEAN

Encoding ==
  pc = "bin2str" =>
    /\ in # None /\ out = <<>>
    /\ pt1 <= Len(in)
    /\ size = bin_size - (pt1 - 1)
    /\ pt1 = 1 \/ (in[pt1] # 0 /\ size # 0)
    /\ Encodes(pt1 - 1)

Encoded ==
  /\ pc = "text" => in # None /\ out = <<>>
  /\ pc \in {"text", "str2bin", "done"} /\ in # None =>
       \E k \in 1 .. Len(in) - 1 : Encodes(k) /\ (in[k + 1] = 0 \/ bin_size = k)

Decoding ==
  /\ pc \in {"str2bin", "done"} => Decoded
  /\ pc = "done" => ~More

HexInv == Types /\ Encoding /\ Encoded /\ Decoding /\ PastEndOnlyIfMalformed
=============================================================================
