------------------------------ MODULE ThreeOfSix ------------------------------
(***************************************************************************)
(* wmbus3of6Decode: the decoder pollRx tries on packets that are not in    *)
(* Mode C.  The sender maps each nibble to a symbol of six bits; the       *)
(* decoder shifts the bits through an 8-bit register, looks the symbol up  *)
(* after every six, and pairs nibbles to bytes.  One step is one symbol.   *)
(***************************************************************************)
EXTENDS Naturals, Sequences

CONSTANTS
  OutMax,      \* room in the caller's buffer (24 bytes)
  MaxSymbols   \* bound on the symbols on air (airLen * 8 \div 6)

\* k3of6: the symbol of nibble n is k3of6[n + 1].
k3of6 == << 22, 13, 14, 11, 28, 25, 26, 19, 44, 37, 38, 35, 52, 49, 50, 41 >>
Nibble == 0..15

VARIABLES
  air,         \* the nibbles whose symbols have come in, in order
  sym,         \* the shift register, uint8_t
  hi, haveHi,  \* first nibble of a byte
  out,         \* bytes decoded
  verdict      \* "decoding", or -1 returned: "invalid"

vars == <<air, sym, hi, haveHi, out, verdict>>

Init ==
  /\ air = <<>> /\ sym = 0 /\ hi = 0 /\ haveHi = FALSE /\ out = <<>>
  /\ verdict = "decoding"

\* Six shifts of an 8-bit register keep its last two bits above the symbol.
Shifted(s) == (sym * 64 + s) % 256

Symbol(n) ==
  /\ verdict = "decoding" /\ Len(air) < MaxSymbols
  /\ air' = Append(air, n)
  /\ sym' = Shifted(k3of6[n + 1])
  /\ \/ /\ \A k \in Nibble : k3of6[k + 1] # sym'
        /\ verdict' = "invalid"
        /\ UNCHANGED <<hi, haveHi, out>>
     \/ \E idx \in Nibble :
          /\ k3of6[idx + 1] = sym'
          /\ haveHi' = ~haveHi
          /\ hi' = IF haveHi THEN hi ELSE idx
          /\ out' = IF haveHi /\ Len(out) < OutMax
                    THEN Append(out, hi * 16 + idx) ELSE out
          /\ UNCHANGED verdict

Next == \E n \in Nibble : Symbol(n)
Spec == Init /\ [][Next]_vars

\* main.cpp:280-282: a nibble becomes a symbol, "we decode here" - a telegram of
\* valid symbols is not taken for an invalid one.
ValidIsDecoded == verdict = "decoding"
=============================================================================
