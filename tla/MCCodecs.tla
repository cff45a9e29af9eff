------------------------------ MODULE MCCodecs ------------------------------
(***************************************************************************)
(* Codecs with the values at the limits of each field, beyond them, and    *)
(* left out; payloads whose bytes are never 0, so that padding shows.      *)
(***************************************************************************)
EXTENDS Codecs

Payload(n) == [i \in 1 .. n |-> 1 + (i % 255)]
Bits(n) == [i \in 1 .. n |-> IF i % 3 = 0 THEN 0 ELSE 1]

Records2 == <<Sub(1, 0, 1, Payload(2)), Sub(65535, 9999, 120, Payload(240))>>
Records40 == [i \in 1 .. 40 |-> Sub(i, i, i, Payload(10))]

LimitsOf(f) ==
    CASE f.kind \in Numeric -> {Undefined, f.lo, f.hi, f.lo - 1, f.hi + 1, (f.lo + f.hi) \div 2}
      [] f.kind \in {"reads", "writes", "data"} ->
            {[i \in DOMAIN s |-> CASE f.kind = "reads" -> [s[i] EXCEPT !.data = <<>>]
                                   [] f.kind = "writes" -> [s[i] EXCEPT !.length = 0]
                                   [] OTHER -> Sub(0, 0, 0, s[i].data)] :
                s \in {<<>>, Records2, Records40, <<Sub(0, 10000, 121, Payload(3))>>}}
      [] f.kind \in {"states", "coils"} -> {Bits(n) : n \in {0, 1, 8, 13, f.hi, f.hi + 1}}
      [] OTHER -> {Payload(n) : n \in {0, 1, 2, 5, 8, 250, 251, 255, 256, 300, 500}}

\* Inside and at the end of a file record, too.
SomeCut == (0 .. 9) \cup {12, 17}

=============================================================================
