-------------------------------- MODULE Token --------------------------------
(***************************************************************************)
(* The identity token (akson-crypto's token.rs): bech32m over a version    *)
(* byte and a root key, with the routing hint outside the checksum.        *)
(*                                                                         *)
(* A token is the sequence of its bytes, so that the model can be held     *)
(* against the repository's golden vectors.                                *)
(***************************************************************************)
EXTENDS Integers, Sequences, Bitwise

LOCAL INSTANCE SequencesExt

TOKEN_VERSION == 1
MAX_TOKEN_CHARS == 90
BECH32M_CONST == 734539939                       \* 0x2bc830a3
GEN == <<996825010, 642813549, 513874426, 1027748829, 705979059>>

(* "akson", "1" and "qpzry9x8gf2tvdw0s3jn54khce6mua7l", as bytes. *)
TOKEN_HRP == <<97, 107, 115, 111, 110>>
Separator == 49
CHARSET == <<113, 112, 122, 114, 121, 57, 120, 56, 103, 102, 50, 116, 118, 100, 119, 48,
             115, 51, 106, 110, 53, 52, 107, 104, 99, 101, 54, 109, 117, 97, 55, 108>>

NoBytes == [none |-> TRUE]

(* One value shifted in, and the generators the bits shifted out select.   *)
Shift(chk, v) ==
    LET top == chk \div 2^25
        Tap(i) == IF (top \div 2^(i - 1)) % 2 = 1 THEN GEN[i] ELSE 0
    IN (((chk % 2^25) * 32) ^^ v) ^^ (Tap(1) ^^ (Tap(2) ^^ (Tap(3) ^^ (Tap(4) ^^ Tap(5)))))

(* `chk` is never negative; the test has TLC compute it step by step.      *)
RECURSIVE ShiftAll(_, _)
ShiftAll(chk, values) ==
    IF chk < 0 \/ values = <<>> THEN chk ELSE ShiftAll(Shift(chk, Head(values)), Tail(values))

polymod(values) == ShiftAll(1, values)

hrp_expand(hrp) ==
    [i \in DOMAIN hrp |-> hrp[i] \div 32] \o <<0>> \o [i \in DOMAIN hrp |-> hrp[i] % 32]

checksum(hrp, data) ==
    LET pm == polymod(hrp_expand(hrp) \o data \o <<0, 0, 0, 0, 0, 0>>) ^^ BECH32M_CONST
    IN [i \in 1..6 |-> (pm \div 2^(5 * (6 - i))) % 32]

verify_checksum(hrp, data) == polymod(hrp_expand(hrp) \o data) = BECH32M_CONST

-----------------------------------------------------------------------------
(* Regrouping: bit k of a sequence of groups, counted from the top of the  *)
(* first one, and the groups of another width read off the same bits.      *)

BitAt(groups, width, k) ==
    (groups[((k - 1) \div width) + 1] \div 2^(width - 1 - ((k - 1) % width))) % 2

Regroup(groups, old, new, count) ==
    LET bit(k) == IF k <= old * Len(groups) THEN BitAt(groups, old, k) ELSE 0
        positions(i) == [n \in 1..new |-> (i - 1) * new + n]
    IN [i \in 1..count |-> FoldLeft(LAMBDA acc, k : 2 * acc + bit(k), 0, positions(i))]

to_five_bit(bytes) == Regroup(bytes, 8, 5, (8 * Len(bytes) + 4) \div 5)

(* What is left over is shorter than a group and all zero. *)
to_eight_bit(groups) ==
    LET bits == 5 * Len(groups)
    IN IF bits % 8 >= 5 \/ \E k \in (8 * (bits \div 8) + 1)..bits : BitAt(groups, 5, k) # 0
       THEN NoBytes
       ELSE [bytes |-> Regroup(groups, 5, 8, bits \div 8)]

-----------------------------------------------------------------------------

encode_token(root_key) ==
    LET data == to_five_bit(<<TOKEN_VERSION>> \o root_key)
        digits == data \o checksum(TOKEN_HRP, data)
    IN TOKEN_HRP \o <<Separator>> \o [i \in DOMAIN digits |-> CHARSET[digits[i] + 1]]

IsLower(b) == b \in 97..122
IsUpper(b) == b \in 65..90
ToLower(s) == [i \in DOMAIN s |-> IF IsUpper(s[i]) THEN s[i] + 32 ELSE s[i]]
ToUpper(s) == [i \in DOMAIN s |-> IF IsLower(s[i]) THEN s[i] - 32 ELSE s[i]]

Rejected(error) == [error |-> error]

(* The payload of a token whose characters are in order. *)
Payload(payload, weak) ==
    IF payload = NoBytes \/ payload = [bytes |-> <<>>] THEN Rejected("bad-length")
    ELSE IF Head(payload.bytes) # TOKEN_VERSION THEN Rejected("unknown-version")
    ELSE IF Len(payload.bytes) # 33 THEN Rejected("bad-length")
    ELSE IF Tail(payload.bytes) \in weak THEN Rejected("weak-key")
    ELSE [version |-> TOKEN_VERSION, root_key |-> Tail(payload.bytes)]

(* The separator is the last "1"; `weak` holds the keys that are no usable *)
(* points of the curve.                                                    *)
decode_token(token, weak) ==
    LET s == ToLower(token)
        seps == {i \in DOMAIN s : s[i] = Separator}
        sep == CHOOSE i \in seps : \A j \in seps : j <= i
        hrp == SubSeq(s, 1, sep - 1)
        rest == SubSeq(s, sep + 1, Len(s))
        data == [i \in DOMAIN rest |-> (CHOOSE d \in 1..32 : CHARSET[d] = rest[i]) - 1]
    IN IF Len(token) > MAX_TOKEN_CHARS THEN Rejected("too-long")
       ELSE IF \E i \in DOMAIN token : token[i] > 127 THEN Rejected("bad-char")
       ELSE IF \E i, j \in DOMAIN token : IsLower(token[i]) /\ IsUpper(token[j]) THEN
                Rejected("mixed-case")
       ELSE IF seps = {} THEN Rejected("bad-hrp")
       ELSE IF Len(rest) < 6 THEN Rejected("bad-checksum")
       ELSE IF \E i \in DOMAIN rest : rest[i] \notin Range(CHARSET) THEN Rejected("bad-char")
       ELSE IF ~verify_checksum(hrp, data) THEN Rejected("bad-checksum")
       ELSE IF hrp # TOKEN_HRP THEN Rejected("bad-hrp")
       ELSE Payload(to_eight_bit(SubSeq(data, 1, Len(data) - 6)), weak)

(* The presentation form: the hint is after the last "@", and an empty one *)
(* is none.                                                                *)
split_presentation(s) ==
    LET ats == {i \in DOMAIN s : s[i] = 64}
        at == CHOOSE i \in ats : \A j \in ats : j <= i
        hint == SubSeq(s, at + 1, Len(s))
    IN IF ats = {} THEN [token |-> s, hint |-> <<>>]
       ELSE [token |-> SubSeq(s, 1, at - 1), hint |-> hint]
=============================================================================
