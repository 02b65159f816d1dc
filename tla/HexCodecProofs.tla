--------------------------- MODULE HexCodecProofs ---------------------------
(***************************************************************************)
(* RoundTrip and PastEndOnlyIfMalformed hold for any strings, texts and    *)
(* sizes.  HexInv is inductive: it says which bytes the text so far stands *)
(* for, which digits the bytes so far come from, and what is left of the   *)
(* size in progress.                                                       *)
(***************************************************************************)
EXTENDS HexCodec, SequenceTheorems, TLAPS

(* The text that bin2str has after one more byte. *)
LEMMA TwoDigitsAppended ==
  ASSUME NEW t \in Seq(Digits), NEW byte \in Bytes
  PROVE  /\ t \o TwoDigits(byte) \in Seq(Digits)
         /\ Len(t \o TwoDigits(byte)) = Len(t) + 2
         /\ \A n \in 1 .. Len(t) : (t \o TwoDigits(byte))[n] = t[n]
         /\ (t \o TwoDigits(byte))[Len(t) + 1] = byte \div 16
         /\ (t \o TwoDigits(byte))[Len(t) + 2] = byte % 16
<1>1. TwoDigits(byte) \in Seq(Digits) /\ Len(TwoDigits(byte)) = 2
  <2>1. byte \div 16 \in Digits /\ byte % 16 \in Digits
    BY DEF Bytes, Digits
  <2>. QED
    BY <2>1 DEF TwoDigits
<1>2. TwoDigits(byte)[1] = byte \div 16 /\ TwoDigits(byte)[2] = byte % 16
  BY DEF TwoDigits
<1>3. /\ t \o TwoDigits(byte) \in Seq(Digits)
      /\ Len(t \o TwoDigits(byte)) = Len(t) + Len(TwoDigits(byte))
      /\ \A n \in 1 .. Len(t) + Len(TwoDigits(byte)) :
           (t \o TwoDigits(byte))[n] = IF n <= Len(t) THEN t[n] ELSE TwoDigits(byte)[n - Len(t)]
  BY <1>1, ConcatProperties, Zenon
<1>4. Len(t) \in Nat
  OBVIOUS
<1>5. /\ Len(t) + 1 \in 1 .. Len(t) + Len(TwoDigits(byte))
      /\ Len(t) + 2 \in 1 .. Len(t) + Len(TwoDigits(byte))
      /\ (Len(t) + 1) - Len(t) = 1 /\ (Len(t) + 2) - Len(t) = 2
      /\ ~(Len(t) + 1 <= Len(t)) /\ ~(Len(t) + 2 <= Len(t))
      /\ \A n \in 1 .. Len(t) : n \in 1 .. Len(t) + Len(TwoDigits(byte)) /\ n <= Len(t)
  BY <1>1, <1>4
<1>. QED
  BY <1>1, <1>2, <1>3, <1>5, Zenon

LEMMA HexInit ==
  ASSUME HexSizes, Init
  PROVE  HexInv
<1>0. bin_size \in Int /\ str_size \in Int
  BY DEF HexSizes, Init
<1>1. CASE pc = "bin2str"
  <2>1. PICK s \in Strings : in = Append(s, 0)
    BY <1>1 DEF Init
  <2>2. s \in Seq(Bytes)
    BY DEF HexSizes
  <2>3. in \in Seq(Bytes) /\ Len(in) = Len(s) + 1 /\ in[Len(in)] = 0
    BY <2>1, <2>2 DEF Bytes
  <2>4. Len(s) \in Nat /\ in # None
    BY <2>2, <2>3 DEF HexSizes
  <2>. QED
    BY <1>0, <1>1, <2>3, <2>4
    DEF Init, HexInv, Types, Encoding, Encoded, Decoding, Encodes, PastEndOnlyIfMalformed
<1>2. CASE pc = "str2bin"
  <2>1. text \in Seq(Digits)
    BY <1>2 DEF HexSizes, Init
  <2>. QED
    BY <1>0, <1>2, <2>1 DEF Init, HexInv, Types, Encoding, Encoded, Decoding, Decoded, PastEndOnlyIfMalformed
<1>. QED
  BY <1>1, <1>2 DEF Init

(* One more byte as digits. *)
LEMMA HexBin2str ==
  ASSUME HexInv, bin2str
  PROVE  HexInv'
<1>1. /\ pc = "bin2str" /\ in # None /\ in \in Seq(Bytes) /\ in[Len(in)] = 0
      /\ out = <<>> /\ out \in Seq(Int) /\ text \in Seq(Digits)
      /\ bin_size \in Int /\ str_size \in Int /\ size \in Int /\ low_first \in BOOLEAN
      /\ pt1 \in 1 .. Len(in) /\ Len(in) \in Nat
      /\ size = bin_size - (pt1 - 1)
      /\ pt1 = 1 \/ (in[pt1] # 0 /\ size # 0)
      /\ Encodes(pt1 - 1)
  BY DEF HexInv, bin2str, Types, Encoding
<1>2. /\ in' = in /\ out' = out /\ low_first' = low_first
      /\ bin_size' = bin_size /\ str_size' = str_size /\ size' = size - 1
      /\ text' = text \o TwoDigits(in[pt1]) /\ pt1' = pt1 + 1
  BY DEF bin2str
<1>3. in[pt1] \in Bytes
  BY <1>1
<1>4. /\ text' \in Seq(Digits)
      /\ Len(text') = 2 * pt1
      /\ \A n \in 1 .. 2 * (pt1 - 1) : text'[n] = text[n]
      /\ text'[2 * pt1 - 1] = in[pt1] \div 16
      /\ text'[2 * pt1] = in[pt1] % 16
  <2>1. Len(text) = 2 * (pt1 - 1)
    BY <1>1 DEF Encodes
  <2>2. Len(text) + 1 = 2 * pt1 - 1 /\ Len(text) + 2 = 2 * pt1
    BY <2>1, <1>1
  <2>3. /\ text' \in Seq(Digits)
        /\ Len(text') = Len(text) + 2
        /\ \A n \in 1 .. Len(text) : text'[n] = text[n]
        /\ text'[Len(text) + 1] = in[pt1] \div 16
        /\ text'[Len(text) + 2] = in[pt1] % 16
    BY <1>1, <1>2, <1>3, TwoDigitsAppended, Zenon
  <2>. QED
    BY <2>1, <2>2, <2>3
<1>5. /\ \A n \in 1 .. pt1 : text'[2 * n - 1] = in[n] \div 16 /\ text'[2 * n] = in[n] % 16
      /\ \A n \in 2 .. pt1 : in[n] # 0
      /\ bin_size \notin 1 .. pt1 - 1
  <2>1. ASSUME NEW n \in 1 .. pt1
        PROVE  text'[2 * n - 1] = in[n] \div 16 /\ text'[2 * n] = in[n] % 16
    <3>1. CASE n = pt1
      BY <3>1, <1>4
    <3>2. CASE n # pt1
      <4>1. n \in 1 .. pt1 - 1 /\ 2 * n - 1 \in 1 .. 2 * (pt1 - 1) /\ 2 * n \in 1 .. 2 * (pt1 - 1)
        BY <3>2, <1>1
      <4>. QED
        BY <4>1, <1>4, <1>1 DEF Encodes
    <3>. QED
      BY <3>1, <3>2
  <2>2. bin_size \notin 1 .. pt1 - 1
    BY <1>1 DEF Encodes
  <2>. QED
    BY <2>1, <2>2, <1>1 DEF Encodes
<1>6. Types'
  <2>1. in' \in Seq(Bytes) /\ Len(in') >= 1 /\ in'[Len(in')] = 0
    BY <1>1, <1>2
  <2>2. text' \in Seq(Digits) /\ size' \in Int /\ pt1' \in Nat \ {0}
    BY <1>1, <1>2, <1>4
  <2>3. pc' \in {"past_end", "text", "bin2str"}
    BY DEF bin2str
  <2>. QED
    BY <1>1, <1>2, <2>1, <2>2, <2>3 DEF Types
<1>7. CASE pt1 = Len(in)
  <2>1. pc' = "past_end"
    BY <1>7 DEF bin2str
  <2>2. Len(in) = 1
    BY <1>7, <1>1
  <2>. QED
    BY <1>1, <1>2, <1>6, <2>1, <2>2
    DEF HexInv, Encoding, Encoded, Decoding, PastEndOnlyIfMalformed
<1>8. CASE pt1 # Len(in) /\ Ends(in[pt1 + 1], size - 1)
  <2>1. pc' = "text"
    BY <1>8 DEF bin2str
  <2>2. pt1 \in 1 .. Len(in) - 1 /\ (in[pt1 + 1] = 0 \/ bin_size = pt1)
    BY <1>8, <1>1 DEF Ends
  <2>3. /\ Len(text') = 2 * pt1
        /\ \A n \in 1 .. pt1 : text'[2 * n - 1] = in'[n] \div 16 /\ text'[2 * n] = in'[n] % 16
        /\ \A n \in 2 .. pt1 : in'[n] # 0
        /\ bin_size' \notin 1 .. pt1 - 1
    BY <1>2, <1>4, <1>5
  <2>4. \E k \in 1 .. Len(in') - 1 :
          /\ Len(text') = 2 * k
          /\ \A n \in 1 .. k : text'[2 * n - 1] = in'[n] \div 16 /\ text'[2 * n] = in'[n] % 16
          /\ \A n \in 2 .. k : in'[n] # 0
          /\ bin_size' \notin 1 .. k - 1
          /\ in'[k + 1] = 0 \/ bin_size' = k
    <3>1. pt1 \in 1 .. Len(in') - 1 /\ (in'[pt1 + 1] = 0 \/ bin_size' = pt1)
      BY <2>2, <1>2
    <3>. QED
      BY <2>3, <3>1
  <2>5. Encoded'
    BY <1>1, <1>2, <2>1, <2>4 DEF Encoded, Encodes
  <2>. QED
    BY <1>1, <1>2, <1>6, <2>1, <2>2, <2>5
    DEF HexInv, Encoding, Decoding, PastEndOnlyIfMalformed
<1>9. CASE pt1 # Len(in) /\ ~Ends(in[pt1 + 1], size - 1)
  <2>1. pc' = "bin2str"
    BY <1>9 DEF bin2str
  <2>2. pt1 + 1 <= Len(in) /\ in[pt1 + 1] # 0 /\ size - 1 # 0
    BY <1>9, <1>1 DEF Ends
  <2>3. Encodes(pt1 - 1)'
    <3>1. (pt1 - 1)' = pt1
      BY <1>2, <1>1
    <3>. QED
      BY <1>2, <1>4, <1>5, <3>1 DEF Encodes
  <2>4. Encoding'
    BY <1>1, <1>2, <2>1, <2>2, <2>3 DEF Encoding
  <2>. QED
    BY <1>1, <1>2, <1>6, <2>1, <2>2, <2>4
    DEF HexInv, Encoded, Decoding, PastEndOnlyIfMalformed
<1>. QED
  BY <1>7, <1>8, <1>9

LEMMA HexConvert ==
  ASSUME HexInv, Convert
  PROVE  HexInv'
<1>1. Encoded' /\ Types' /\ PastEndOnlyIfMalformed'
  BY DEF HexInv, Convert, Types, Encoded, Encodes, PastEndOnlyIfMalformed
<1>2. Decoded'
  BY DEF HexInv, Convert, Types, Encoded, Decoded
<1>. QED
  BY <1>1, <1>2 DEF HexInv, Convert, Encoding, Decoding

(* Two more digits as a byte. *)
LEMMA HexStr2bin ==
  ASSUME HexInv, str2bin
  PROVE  HexInv'
<1>1. /\ pc = "str2bin" /\ text \in Seq(Digits) /\ out \in Seq(Int) /\ low_first \in BOOLEAN
      /\ bin_size \in Int /\ str_size \in Int /\ size \in Int
      /\ pt1 = 2 * Len(out) + 1 /\ pt1 <= Len(text) /\ Len(out) \in Nat /\ Len(text) \in Nat
      /\ size = str_size - Len(out) /\ size # 0
      /\ str_size \notin 0 .. Len(out) - 1
      /\ \A n \in 1 .. Len(out) : out[n] = Byte(text[2 * n - 1], text[2 * n])
  BY DEF HexInv, str2bin, More, Types, Decoding, Decoded
<1>2. /\ in' = in /\ text' = text /\ low_first' = low_first
      /\ bin_size' = bin_size /\ str_size' = str_size
      /\ size' = size - 1 /\ pt1' = pt1 + 2
  BY DEF str2bin
<1>3. CASE pt1 = Len(text)
  <2>1. pc' = "past_end" /\ out' = out
    BY <1>3 DEF str2bin
  <2>2. Len(text) % 2 = 1
    <3>1. \A k \in Nat : (2 * k + 1) % 2 = 1
      OBVIOUS
    <3>. QED
      BY <3>1, <1>1, <1>3
  <2>3. in = None
    <3>1. SUFFICES ASSUME in # None PROVE FALSE
      OBVIOUS
    <3>2. PICK k \in 1 .. Len(in) - 1 : Encodes(k)
      BY <3>1, <1>1 DEF HexInv, Encoded
    <3>3. Len(text) = 2 * k /\ k \in Int
      BY <3>2 DEF Encodes
    <3>. QED
      BY <3>3, <1>1, <1>3
  <2>. QED
    BY <1>1, <1>2, <2>1, <2>2, <2>3
    DEF HexInv, Types, Encoding, Encoded, Decoding, PastEndOnlyIfMalformed
<1>4. CASE pt1 # Len(text)
  <2>1. /\ pc' = pc
        /\ out' = Append(out, Byte(text[pt1], text[pt1 + 1]))
    BY <1>4 DEF str2bin
  <2>2. Byte(text[pt1], text[pt1 + 1]) \in Int
    <3>1. text[pt1] \in Digits /\ text[pt1 + 1] \in Digits
      BY <1>1, <1>4
    <3>. QED
      BY <3>1 DEF Byte, Digits
  <2>3. /\ out' \in Seq(Int) /\ Len(out') = Len(out) + 1
        /\ \A n \in 1 .. Len(out) : out'[n] = out[n]
        /\ out'[Len(out) + 1] = Byte(text[pt1], text[pt1 + 1])
    BY <1>1, <2>1, <2>2
  <2>4. ASSUME NEW n \in 1 .. Len(out')
        PROVE  out'[n] = Byte(text[2 * n - 1], text[2 * n])
    <3>1. CASE n = Len(out) + 1
      <4>1. 2 * n - 1 = pt1 /\ 2 * n = pt1 + 1
        BY <3>1, <1>1
      <4>. QED
        BY <3>1, <4>1, <2>3
    <3>2. CASE n # Len(out) + 1
      <4>1. n \in 1 .. Len(out)
        BY <3>2, <2>3, <1>1
      <4>. QED
        BY <4>1, <2>3, <1>1
    <3>. QED
      BY <3>1, <3>2
  <2>5. Decoded'
    <3>1. pt1' = 2 * Len(out') + 1 /\ 2 * Len(out') <= Len(text')
      BY <1>1, <1>2, <1>4, <2>3
    <3>2. size' = str_size' - Len(out') /\ str_size' \notin 0 .. Len(out') - 1
      BY <1>1, <1>2, <2>3
    <3>. QED
      BY <3>1, <3>2, <2>4, <1>2 DEF Decoded, Byte
  <2>6. Encoded'
    BY <1>1, <1>2, <2>1 DEF HexInv, Encoded, Encodes
  <2>7. Types'
    <3>1. pt1' \in Nat \ {0} /\ size' \in Int
      BY <1>1, <1>2
    <3>. QED
      BY <1>1, <1>2, <2>1, <2>3, <3>1 DEF HexInv, Types
  <2>8. PastEndOnlyIfMalformed'
    BY <1>1, <1>2, <2>1 DEF HexInv, PastEndOnlyIfMalformed
  <2>. QED
    BY <1>1, <1>2, <2>1, <2>5, <2>6, <2>7, <2>8 DEF HexInv, Encoding, Decoding
<1>. QED
  BY <1>3, <1>4

LEMMA HexFinish ==
  ASSUME HexInv, Finish
  PROVE  HexInv'
BY DEF HexInv, Finish, More, Types, Encoding, Encoded, Encodes, Decoding, Decoded, Byte,
       PastEndOnlyIfMalformed

LEMMA HexStutter ==
  ASSUME HexInv, UNCHANGED vars
  PROVE  HexInv'
BY DEF HexInv, vars, More, Types, Encoding, Encoded, Encodes, Decoding, Decoded, Byte,
       PastEndOnlyIfMalformed

LEMMA HexRoundTrip ==
  ASSUME HexInv
  PROVE  RoundTrip
<1>1. SUFFICES ASSUME pc = "done", in # None
               PROVE  \E k \in 1 .. Len(in) - 1 :
                        /\ Takes(k)
                        /\ Len(out) = IF str_size \in 0 .. k THEN str_size ELSE k
                        /\ \A n \in 1 .. Len(out) :
                             out[n] = IF low_first THEN Exchanged(in[n]) ELSE in[n]
  BY DEF RoundTrip
<1>2. PICK k \in 1 .. Len(in) - 1 : Encodes(k) /\ (in[k + 1] = 0 \/ bin_size = k)
  BY <1>1 DEF HexInv, Encoded
<1>3. /\ in \in Seq(Bytes) /\ Len(in) \in Nat /\ Len(out) \in Nat /\ low_first \in BOOLEAN
      /\ str_size \in Int /\ size = str_size - Len(out) /\ str_size \notin 0 .. Len(out) - 1
      /\ pt1 = 2 * Len(out) + 1 /\ 2 * Len(out) <= Len(text)
      /\ pt1 > Len(text) \/ size = 0
      /\ \A n \in 1 .. Len(out) : out[n] = Byte(text[2 * n - 1], text[2 * n])
  BY <1>1 DEF HexInv, Types, Decoding, Decoded, More
<1>4. Len(text) = 2 * k /\ Len(out) <= k
  BY <1>2, <1>3 DEF Encodes
<1>5. ASSUME NEW n \in 1 .. Len(out)
      PROVE  out[n] = IF low_first THEN Exchanged(in[n]) ELSE in[n]
  <2>1. n \in 1 .. k /\ n \in 1 .. Len(in)
    BY <1>2, <1>3, <1>4
  <2>2. out[n] = Byte(in[n] \div 16, in[n] % 16)
    BY <1>2, <1>3, <2>1 DEF Encodes
  <2>3. in[n] \in Bytes
    BY <1>3, <2>1
  <2>4. \A byte \in Bytes : 16 * (byte \div 16) + (byte % 16) = byte
    BY DEF Bytes
  <2>. QED
    BY <2>2, <2>3, <2>4, <1>3 DEF Byte, Exchanged
<1>6. Len(out) = IF str_size \in 0 .. k THEN str_size ELSE k
  BY <1>2, <1>3, <1>4
<1>7. Takes(k)
  BY <1>2 DEF Encodes, Takes
<1>. QED
  BY <1>5, <1>6, <1>7

(* For any strings, texts and sizes, and both orders of the operands: a    *)
(* conversion there and back returns what the two sizes admit of the       *)
(* string, and a loop leaves its string for an empty one, or its text for  *)
(* half a byte, only.                                                      *)
THEOREM HexCorrect ==
  ASSUME HexSizes
  PROVE  Spec => [](RoundTrip /\ PastEndOnlyIfMalformed)
<1>1. Init => HexInv
  BY HexInit
<1>2. HexInv /\ [Next]_vars => HexInv'
  BY HexBin2str, HexConvert, HexStr2bin, HexFinish, HexStutter DEF Next
<1>3. HexInv => RoundTrip /\ PastEndOnlyIfMalformed
  BY HexRoundTrip DEF HexInv
<1>. QED
  BY <1>1, <1>2, <1>3, PTL DEF Spec
=============================================================================
