------------------------------ MODULE ToolText ------------------------------
(***************************************************************************)
(* The text algorithms of the standard tools: exact replacement (edit),    *)
(* windows and truncation (read, bash), glob and pattern matching (find,   *)
(* grep), and the bounded projection of a result into a provider context   *)
(* (src/crates/tea-core/src/tools, src/crates/tea-core/src/tool.rs).       *)
(*                                                                         *)
(* A text is a sequence of characters; "wide" is a character of two bytes, *)
(* every other one has one byte.  Path separators and line feeds are       *)
(* characters like the others.                                             *)
(***************************************************************************)
EXTENDS Integers, Sequences, FiniteSets, SequencesExt

CONSTANTS
    MaxLines,       \* MAX_OUTPUT_LINES
    MaxBytes,       \* MAX_OUTPUT_BYTES
    Policy          \* ToolResultProjectionPolicy: [content, details, total]

ASSUME ToolTextAssumption == {MaxLines, MaxBytes} \subseteq Nat \ {0}

Newline == "\n"
Bytes(text) == Len(text) + Cardinality({k \in DOMAIN text : text[k] = "wide"})

\* The longest prefix, and the longest suffix, of at most limit bytes.
PrefixOf(text, limit) ==
    SubSeq(text, 1, Max({n \in 0..Len(text) : Bytes(SubSeq(text, 1, n)) <= limit}))
SuffixOf(text, limit) ==
    SubSeq(text, Min({n \in 1..(Len(text) + 1) : Bytes(SubSeq(text, n, Len(text))) <= limit}),
           Len(text))

\* str::split('\n') and str::lines.
SplitLines(text) ==
    LET ends == SelectSeq([k \in 1..(Len(text) + 1) |-> k],
                          LAMBDA k : k = Len(text) + 1 \/ text[k] = Newline)
        Line(j) == SubSeq(text, IF j = 1 THEN 1 ELSE ends[j - 1] + 1, ends[j] - 1)
    IN SubSeq([j \in DOMAIN ends |-> Line(j)], 1, Len(ends))
EndsLine(text) == text # <<>> /\ Last(text) = Newline
LinesOf(text) == IF text = <<>> \/ EndsLine(text) THEN Front(SplitLines(text)) ELSE SplitLines(text)
Join(lines) ==
    FlattenSeq([k \in DOMAIN lines |-> IF k = 1 THEN lines[k] ELSE <<Newline>> \o lines[k]])

\* part stands in text from position start.
StandsAt(text, start, part) ==
    start + Len(part) <= Len(text) + 1 /\ SubSeq(text, start, start + Len(part) - 1) = part

-----------------------------------------------------------------------------
(* edit.                                                                   *)

\* str::match_indices: matches from the left that do not overlap.
Matches(text, old) ==
    LET from[i \in 1..(Len(text) + Len(old) + 1)] ==
          IF i + Len(old) > Len(text) + 1 THEN <<>>
          ELSE IF StandsAt(text, i, old) THEN <<i>> \o from[i + Len(old)]
          ELSE from[i + 1]
    IN from[1]

\* Where each edit applies, in the order of the text.
Located(text, edits) ==
    SortSeq([k \in DOMAIN edits |->
               [start |-> Head(Matches(text, edits[k].old)), old |-> edits[k].old,
                new |-> edits[k].new]],
            LAMBDA one, other : one.start < other.start)

Overlaps(places) ==
    \E k \in 1..(Len(places) - 1) :
        places[k].start + Len(places[k].old) > places[k + 1].start

Replacing(text, place) ==
    SubSeq(text, 1, place.start - 1) \o place.new
      \o SubSeq(text, place.start + Len(place.old), Len(text))

\* Mutant: the replacements run from the first to the last.
Applied_Forward(text, places) == FoldLeft(Replacing, text, places)

\* From the last place to the first, so that the earlier offsets stay valid.
Applied(text, places) == FoldLeft(Replacing, text, Reverse(places))

\* The text an edit call writes, or why it leaves the text as it is.
Edited(text, edits) ==
    LET places == Located(text, edits)
        Refused(why) == [fault |-> why, text |-> text]
    IN CASE \E k \in DOMAIN edits : edits[k].old = <<>> -> Refused("invalid")
         [] \E k \in DOMAIN edits : Len(Matches(text, edits[k].old)) # 1 -> Refused("failed")
         [] Overlaps(places) -> Refused("failed")
         [] OTHER -> [fault |-> "none", text |-> Applied(text, places)]

-----------------------------------------------------------------------------
(* read and bash.                                                          *)

\* The complete lines of the head that fit both limits.
HeadLines(lines) ==
    SubSeq(lines, 1, Max({n \in 0..Len(lines) :
                            n <= MaxLines /\ Bytes(Join(SubSeq(lines, 1, n))) <= MaxBytes}))

\* truncate_read_output of a text that is given by its lines: [text, truncated].
HeadOf(window) ==
    LET lines == IF Len(window) > 1 /\ Last(window) = <<>> THEN Front(window) ELSE window
    IN IF Len(lines) <= MaxLines /\ Bytes(Join(window)) <= MaxBytes
         THEN [text |-> Join(window), truncated |-> FALSE]
         ELSE [text |-> Join(HeadLines(lines)), truncated |-> TRUE]

\* truncate_output: the last lines, then the last bytes.
TailOf(text) ==
    LET lines == LinesOf(text)
        kept == Join(SubSeq(lines, IF Len(lines) > MaxLines THEN Len(lines) - MaxLines + 1 ELSE 1,
                            Len(lines)))
    IN [text |-> SuffixOf(kept, MaxBytes),
        truncated |-> Len(lines) > MaxLines \/ Bytes(kept) > MaxBytes]

-----------------------------------------------------------------------------
(* find and grep.                                                          *)

\* as_bytes: both matchers go by the byte.
AsBytes(text) ==
    FlattenSeq([k \in DOMAIN text |-> IF text[k] = "wide" THEN <<"lead", "rest">> ELSE <<text[k]>>])

\* glob_match of bytes: `*` stays in one component, `**` crosses them, `**/` may
\* be nothing at all, and `?` is one byte.
GlobMatchBytes(pattern, text) ==
    LET at[p \in 1..(Len(pattern) + 1), t \in 1..(Len(text) + 1)] ==
          IF p > Len(pattern) THEN t > Len(text)
          ELSE IF pattern[p] # "*"
            THEN t <= Len(text) /\ pattern[p] \in {"?", text[t]} /\ at[p + 1, t + 1]
          ELSE LET double == p < Len(pattern) /\ pattern[p + 1] = "*"
                   next == IF double THEN p + 2 ELSE p + 1
               IN \/ double /\ next <= Len(pattern) /\ pattern[next] = "/" /\ at[next + 1, t]
                  \/ \E end \in t..(Len(text) + 1) :
                       /\ double \/ \A k \in t..(end - 1) : text[k] # "/"
                       /\ at[next, end]
    IN at[1, 1]
GlobMatch(pattern, text) == GlobMatchBytes(AsBytes(pattern), AsBytes(text))

\* tiny_match of bytes from one position.  An anchored match may end anywhere.
TinyMatchFrom(pattern, text, start) ==
    LET at[p \in 1..(Len(pattern) + 1), t \in 1..(Len(text) + 1)] ==
          IF p > Len(pattern) THEN TRUE
          ELSE IF pattern[p] = "*" THEN \E end \in t..(Len(text) + 1) : at[p + 1, end]
          ELSE t <= Len(text) /\ pattern[p] \in {".", text[t]} /\ at[p + 1, t + 1]
    IN at[1, start]

\* TinyPattern::matches.  With `$` the match must also be as long as the
\* pattern has bytes other than `*`; with `^` nothing looks at `$`.
TinyMatchesBytes(pattern, text) ==
    LET fromStart == Head(pattern) = "^"
        toEnd == Last(pattern) = "$"
        tail == IF fromStart THEN Tail(pattern) ELSE pattern
        core == IF toEnd THEN Front(tail) ELSE tail
        length == Cardinality({k \in DOMAIN core : core[k] # "*"})
    IN IF fromStart THEN TinyMatchFrom(core, text, 1)
       ELSE \E start \in 1..(Len(text) + 1) :
              TinyMatchFrom(core, text, start) /\ (toEnd => start + length = Len(text) + 1)
TinyMatches(pattern, text) == TinyMatchesBytes(AsBytes(pattern), AsBytes(text))

Includes(text, part) ==
    \E start \in 1..(Len(text) + 1) : StandsAt(text, start, part)

-----------------------------------------------------------------------------
(* The projection of results into a context.  The fixed texts keep their    *)
(* order: the marker has 19 bytes, the longest status header 38, the       *)
(* smallest total that is accepted 58, and the notice of a repetition 62.  *)

Marker == <<"m", "m">>
StatusHeader == <<"h", "h", "h">>

\* ToolResultProjectionPolicy::validate.
PolicyIsValid ==
    /\ Policy.content >= Bytes(Marker) /\ Policy.details >= Bytes(Marker)
    /\ Policy.total >= Bytes(StatusHeader) + 1 + Bytes(Marker)
ASSUME PolicyAssumption == PolicyIsValid

\* truncate_middle: a prefix, the marker and a suffix, in limit bytes.
Middle(text, limit) ==
    LET remaining == limit - Bytes(Marker)
    IN CASE Bytes(text) <= limit -> text
         [] limit <= Bytes(Marker) -> PrefixOf(Marker, limit)
         [] OTHER -> PrefixOf(text, remaining \div 2) \o Marker
                       \o SuffixOf(text, remaining - (remaining \div 2))

\* Mutant: the separator is not counted.
Section_NoSeparator(output, section) ==
    LET available == Policy.total - Bytes(output)
    IN IF section = <<>> \/ available <= 0 THEN output
       ELSE output \o (IF output = <<>> THEN <<>> ELSE <<Newline>>) \o Middle(section, available)

\* append_projected_section.
Section(output, section) ==
    LET separator == IF output = <<>> THEN <<>> ELSE <<Newline>>
        available == Policy.total - Bytes(output) - Len(separator)
    IN IF section = <<>> \/ available <= 0 THEN output
       ELSE output \o separator \o Middle(section, available)

\* error_fingerprint hashes the texts one after the other.  Every tool of the
\* workspace fails without signature, details or guidance of its own.
Fingerprint(result) == <<result.content \o result.details, result.failure>>

\* The notice is returned as it is, whatever the limits.
Repeated == [k \in 1..7 |-> "r"]
\* project_tool_result_as_text, with the errors that were seen before it.
ProjectedText(result, seen) ==
    IF result.failure # "none" /\ Fingerprint(result) \in seen THEN Repeated
    ELSE LET header == IF result.failure # "none" THEN StatusHeader ELSE <<>>
         IN FoldLeft(Section, <<>>,
                     <<header, Middle(result.content, Policy.content),
                       Middle(result.details, Policy.details)>>)

\* The results of one context in their order: each one sees the errors before it.
Projected(results) ==
    [k \in DOMAIN results |->
       ProjectedText(results[k],
                     {Fingerprint(results[j]) : j \in {i \in 1..(k - 1) : results[i].failure # "none"}})]
=============================================================================
