------------------------------ MODULE AddressRange ------------------------------
(***************************************************************************)
(* IPv4 addresses and inclusive ranges of them: dotted notation, a tuple   *)
(* of octets, in configurations and in the Terraform state, and 32-bit     *)
(* unsigned numbers in requests and answers.                               *)
(***************************************************************************)
EXTENDS Integers, Sequences

Octet   == 0..255
Dotted  == Octet \X Octet \X Octet \X Octet

ParseIPv4(d) == 16777216 * d[1] + 65536 * d[2] + 256 * d[3] + d[4]

FormatIPv4(a) ==
    <<a \div 16777216, (a \div 65536) % 256, (a \div 256) % 256, a % 256>>

\* A range is a pair of dotted addresses; validateRange refuses an end that
\* is lower than the start.
Between(s, e)   == [start |-> s, end |-> e]
ValidRange(g)   == ParseIPv4(g.start) <= ParseIPv4(g.end)
Covers(g, a)    == ParseIPv4(g.start) <= a /\ a <= ParseIPv4(g.end)

\* Two inclusive ranges overlap unless one ends before the other starts.
Overlap(g, h) ==
    /\ ParseIPv4(g.start) <= ParseIPv4(h.end)
    /\ ParseIPv4(h.start) <= ParseIPv4(g.end)

\* AddressMapRangeKey: the ID of a range, one address or two.
RangeKey(g) == IF g.start = g.end THEN <<g.start>> ELSE <<g.start, g.end>>

\* ImportState: what stands before and after the first hyphen.
ImportedRange(key) == Between(key[1], key[Len(key)])
=============================================================================
