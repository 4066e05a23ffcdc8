--------------------------- MODULE RemotePayloads ---------------------------
(***************************************************************************)
(* Payloads of remote answers (meshquill-core/remote.rs): telemetry and    *)
(* summary records, neighbour pages, access lists and comma- or            *)
(* line-separated texts.  Records are checked against a reference encoder; *)
(* scaling and signs of the values are left out, a value is its bytes.     *)
(***************************************************************************)
EXTENDS Integers, Sequences, FiniteSets, FiniteSetsExt, SequencesExt

MaxRemotePayload == 176  \* MAX_REMOTE_PAYLOAD_LEN
MinPolyline == 8         \* LPP_MIN_POLYLINE_SIZE
MaxInnerPayload == 176   \* MAX_INNER_PAYLOAD (protocol.rs)
MaxCustomVars == 140     \* MAX_CUSTOM_VARS_BYTES (protocol.rs)

-----------------------------------------------------------------------------
(* Kinds of reading, by their wire code, and the bytes of one record.      *)

Polyline == 240
OneByte == {0, 1, 102, 104, 120, 142}
TwoBytes == {2, 3, 101, 103, 115, 116, 117, 121, 125, 128, 132}
FourBytes == {100, 118, 130, 131, 133}
TwoByteVectors == {113, 134}
Gps == 136
Colour == 135

Kinds == OneByte \cup TwoBytes \cup FourBytes \cup TwoByteVectors \cup {Gps, Colour, Polyline}

\* data_size_and_count: the width of a component times the number of components.
RecordSize(kind) ==
    CASE kind \in OneByte -> 1
      [] kind \in TwoBytes -> 2
      [] kind \in FourBytes -> 4
      [] kind \in TwoByteVectors -> 6
      [] kind = Gps -> 9
      [] kind = Colour -> 3

\* summary_width: vectors and polylines have no summary, humidity (104) takes two bytes there.
Summarized == OneByte \cup TwoBytes \cup FourBytes
SummaryWidth(kind) == IF kind = 104 THEN 2 ELSE RecordSize(kind)

-----------------------------------------------------------------------------
(* Record lists: a channel, a kind and the bytes of the record; channel 0  *)
(* ends the list and only zeros may follow.                                *)

Refused == [ok |-> FALSE, records |-> <<>>]
Accepted(records) == [ok |-> TRUE, records |-> records]

\* Where the record whose channel is at index i ends, for parse_telemetry_payload; 0 if it is
\* truncated or of no known kind.  A polyline carries its own size, itself included.
SampleEnd(payload, i) ==
    IF i + 1 > Len(payload) \/ payload[i + 1] \notin Kinds THEN 0
    ELSE IF payload[i + 1] # Polyline
         THEN LET last == i + 1 + RecordSize(payload[i + 1])
              IN IF last <= Len(payload) THEN last ELSE 0
         ELSE IF i + 2 <= Len(payload) /\ payload[i + 2] >= MinPolyline
                 /\ i + 1 + payload[i + 2] <= Len(payload)
              THEN i + 1 + payload[i + 2] ELSE 0

\* The same for the three values of parse_summary_payload.
SummaryEnd(payload, i) ==
    IF i + 1 > Len(payload) \/ payload[i + 1] \notin Summarized THEN 0
    ELSE LET last == i + 1 + 3 * SummaryWidth(payload[i + 1])
         IN IF last <= Len(payload) THEN last ELSE 0

\* Mutation: what follows the end of the list is ignored.
PaddingUnchecked(payload, i) == TRUE

\* Channel zero must be followed by zeros only.
IsPadding(payload, i) == \A j \in i..Len(payload) : payload[j] = 0

\* The loop over the records, from index `start`; lastOf[i] is where the record at i ends.
ParseRecords(payload, start, lastOf) ==
    LET from[i \in start..(Len(payload) + 1)] ==
            IF i > Len(payload) THEN Accepted(<<>>)
            ELSE IF payload[i] = 0
                 THEN IF IsPadding(payload, i) THEN Accepted(<<>>) ELSE Refused
                 ELSE LET last == lastOf[i]
                      IN IF last = 0 \/ ~from[last + 1].ok THEN Refused
                         ELSE Accepted(<<SubSeq(payload, i, last)>> \o from[last + 1].records)
    IN from[start]

ParseTelemetryPayload(payload) ==
    IF Len(payload) > MaxRemotePayload THEN Refused
    ELSE ParseRecords(payload, 1, [i \in DOMAIN payload |-> SampleEnd(payload, i)])

\* Four bytes of clock come first.
ParseSummaryPayload(payload) ==
    IF Len(payload) > MaxRemotePayload \/ Len(payload) < 4 THEN Refused
    ELSE ParseRecords(payload, 5, [i \in DOMAIN payload |-> SummaryEnd(payload, i)])

-----------------------------------------------------------------------------
(* Pages and lists of fixed entries.                                       *)

\* A key prefix, a four-byte age and one byte of signal quality.
NeighbourEntry(prefix) == prefix + 5

\* validate_neighbour_query
NeighbourQueryOk(version, count, prefix, knownOrder, nonce) ==
    version = 0 /\ count > 0 /\ prefix \in 1..32 /\ knownOrder /\ nonce # 0

\* parse_neighbour_page, as the slices it takes of a payload of `len` bytes; counts are signed.
ParseNeighbourPage(len, prefix, total, result) ==
    [ok |-> /\ len <= MaxRemotePayload /\ prefix \in 1..32 /\ len >= 4
            /\ total >= 0 /\ result >= 0 /\ result <= total
            /\ len = 4 + result * NeighbourEntry(prefix),
     entries |-> [i \in 1..result |->
                    LET at == 4 + (i - 1) * NeighbourEntry(prefix)
                    IN [key |-> at, age |-> at + prefix, snr |-> at + prefix + 4]]]

\* parse_acl_payload: entries of seven bytes; one whose key prefix is zero is an empty slot.
ParseAclPayload(payload) ==
    LET slots == [i \in 1..(Len(payload) \div 7) |-> SubSeq(payload, 7 * i - 6, 7 * i)]
    IN [ok |-> Len(payload) <= MaxRemotePayload /\ Len(payload) % 7 = 0,
        entries |-> SelectSeq(slots, LAMBDA slot : \E j \in 1..6 : slot[j] # 0)]

-----------------------------------------------------------------------------
(* Texts.  A text is a sequence of characters, NUL is 0.                   *)

\* The pieces between the separators.
Split(text, separator) ==
    LET cuts == SetToSortSeq({0, Len(text) + 1} \cup {i \in DOMAIN text : text[i] = separator}, <)
    IN [i \in 1..(Len(cuts) - 1) |-> SubSeq(text, cuts[i] + 1, cuts[i + 1] - 1)]

\* trim_trailing_nul: nothing but NULs may follow the first.
TrimTrailingNul(text) ==
    LET nuls == {i \in DOMAIN text : text[i] = 0}
    IN [ok |-> \A i \in nuls : \A j \in i..Len(text) : text[j] = 0,
        text |-> IF nuls = {} THEN text ELSE SubSeq(text, 1, Min(nuls) - 1)]

Comma == 44
Newline == 10
Colon == 58

\* check_max_len, and the four bytes of clock before the text.
HeaderOk(payload) == Len(payload) \in 4..MaxRemotePayload
Body(payload) == SubSeq(payload, 5, Len(payload))

ParseRegions(payload) ==
    LET trimmed == TrimTrailingNul(Body(payload))
        names == Split(trimmed.text, Comma)
    IN [ok |-> /\ HeaderOk(payload) /\ trimmed.ok /\ trimmed.text # <<>>
               /\ \A i \in DOMAIN names : names[i] # <<>>,
        names |-> names]

\* splitn(3): exactly a name and an owner.
ParseOwner(payload) ==
    LET trimmed == TrimTrailingNul(Body(payload))
        parts == Split(trimmed.text, Newline)
    IN [ok |-> /\ HeaderOk(payload) /\ trimmed.ok /\ Len(parts) = 2
               /\ \A i \in DOMAIN parts : parts[i] # <<>>,
        names |-> parts]

\* validate_custom_component: neither NUL nor a separator of the wire.
CustomComponentOk(text) ==
    Len(text) \in 1..(MaxInnerPayload - 2) /\ Range(text) \cap {0, Colon, Comma} = {}

\* Command::set_custom_var and Command::checked, which counts the command byte.
SetCustomVar(key, value) ==
    LET text == key \o <<Colon>> \o value
    IN [ok |-> CustomComponentOk(key) /\ CustomComponentOk(value) /\ 1 + Len(text) <= MaxInnerPayload,
        text |-> text]

\* parse_custom_vars (protocol.rs): key:value pairs, none empty, no key twice, in an answer that
\* is shorter than a command may be.
ParseCustomVars(text) ==
    LET pairs == IF text = <<>> THEN <<>> ELSE Split(text, Comma)
        halves == [i \in DOMAIN pairs |-> Split(pairs[i], Colon)]
        Valid(pair) == Len(pair) = 2 /\ \A j \in 1..2 : pair[j] # <<>> /\ 0 \notin Range(pair[j])
    IN [ok |-> /\ Len(text) <= MaxCustomVars
               /\ \A i \in DOMAIN halves : Valid(halves[i])
               /\ \A i, j \in DOMAIN halves : i # j => halves[i][1] # halves[j][1],
        entries |-> halves]

-----------------------------------------------------------------------------
(* Properties, over inputs built from a reference encoder.                 *)

Filler(n) == [i \in 1..n |-> 7]
Zeros(n) == [i \in 1..n |-> 0]
Sample(kind) ==
    <<5, kind>> \o (IF kind = Polyline THEN <<MinPolyline>> \o Filler(MinPolyline - 1)
                    ELSE Filler(RecordSize(kind)))
SummaryRecord(kind) == <<5, kind>> \o Filler(3 * SummaryWidth(kind))
Lists(Record(_), kinds) ==
    {<<>>} \cup {<<Record(a)>> : a \in kinds} \cup {<<Record(a), Record(b)>> : a \in kinds, b \in kinds}

\* Record lists are read exactly as they were written: every sample of every known kind comes back
\* with its own bytes and in order, with any padding, and a list whose last record is cut short or that
\* is followed by anything but zeros is refused, never read as other records (parse_telemetry_payload,
\* parse_summary_payload).
RecordsAreExact ==
    LET Exact(parse(_), head, lists) ==
            \A records \in lists : \A pad \in 0..2 :
               LET payload == head \o FlattenSeq(records) \o Zeros(pad)
                   Cut(n) == SubSeq(payload, 1, Len(payload) - n)
               IN /\ parse(payload) = Accepted(records)
                  /\ records # <<>> /\ pad = 0 => ~parse(Cut(1)).ok
                  /\ ~parse(payload \o <<0, 7>>).ok
    IN /\ Exact(ParseTelemetryPayload, <<>>, Lists(Sample, Kinds))
       /\ Exact(ParseSummaryPayload, Filler(4), Lists(SummaryRecord, Summarized))
       /\ \A kind \in Kinds \ Summarized : ~ParseSummaryPayload(Filler(4) \o <<5, kind>> \o Filler(12)).ok

\* The entries of an accepted neighbour page tile the payload behind its header: no slice reaches
\* past the end or into the next entry, for every prefix length and count a query may ask for.
EntriesTileThePage ==
    \A prefix \in 0..33, len \in 0..(MaxRemotePayload + 1), result \in -1..6 :
       LET page == ParseNeighbourPage(len, prefix, 6, result)
       IN page.ok =>
             /\ \A i \in 1..result :
                   LET next == IF i = result THEN len ELSE page.entries[i + 1].key
                   IN /\ page.entries[i].age = page.entries[i].key + prefix
                      /\ page.entries[i].snr + 1 = next
             /\ NeighbourQueryOk(0, 1, prefix, TRUE, 1)

\* Texts keep what was put in them: a custom variable that the command builder lets through is read
\* back as that one variable if it fits the answer, and is otherwise refused, not shortened; an
\* access list keeps every slot in use; an answer with bytes behind its first NUL is refused and not
\* shortened (set_custom_var, parse_custom_vars, parse_regions_response, parse_owner_response,
\* parse_acl_payload).
TextsAreKept ==
    LET Texts == UNION {[1..n -> {0, 65, Comma, Colon, Newline}] : n \in 0..3}
        Long == {[i \in 1..n |-> 65] : n \in 137..(MaxInnerPayload - 1)}
        Key(n) == <<n, 1, 1, 1, 1, 1, 9>>
        NulsLast(text) == \A i \in DOMAIN text : text[i] # 0 => \A j \in 1..i : text[j] # 0
        WithClock(text) == <<0, 7, 0, 7>> \o text
    IN /\ \A key \in Texts, value \in Texts \cup Long :
             LET var == SetCustomVar(key, value)
                 read == ParseCustomVars(var.text)
             IN var.ok => IF read.ok THEN read.entries = << <<key, value>> >>
                          ELSE Len(key) + Len(value) >= MaxCustomVars
       /\ \A text \in Texts :
             LET regions == ParseRegions(WithClock(text))
                 owner == ParseOwner(WithClock(text))
             IN /\ regions.ok =>
                      /\ NulsLast(text)
                      /\ FlattenSeq(regions.names) = SelectSeq(text, LAMBDA c : c \notin {0, Comma})
                /\ owner.ok =>
                      /\ NulsLast(text)
                      /\ FlattenSeq(owner.names) = SelectSeq(text, LAMBDA c : c \notin {0, Newline})
       /\ \A slots \in [1..3 -> {Zeros(7), Key(1), Key(0)}] :
             ParseAclPayload(FlattenSeq(slots)).entries
                = SelectSeq(slots, LAMBDA slot : slot # Zeros(7))

\* What the builder lets through the parser reads back.  This does not hold: set_custom_var allows
\* 175 bytes, and an answer of more than 140 is refused whole.
EveryVariableIsReadBack ==
    \A n \in 1..(MaxInnerPayload - 2) :
        LET var == SetCustomVar(<<65>>, [i \in 1..n |-> 65])
        IN var.ok => ParseCustomVars(var.text).ok
=============================================================================
