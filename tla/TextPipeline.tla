----------------------------- MODULE TextPipeline -----------------------------
(***************************************************************************)
(* What is done to a text before it is stored: TextNormalizer,             *)
(* SensitiveDataClassifier, TextRedactor and TextChunker                   *)
(* (app/infrastructure/text/).  A text is a sequence of tokens: a word, the *)
(* full stop of a sentence, a whitespace or a control character, a run of  *)
(* characters that one of the classifier's patterns can match, or           *)
(* "[REDACTED]".                                                            *)
(*                                                                         *)
(* Neither Presidio (the names are bound for the type checker only) nor    *)
(* tiktoken (no dependency of the project) is there: the pattern matching  *)
(* and _chunk_fallback are what runs.  The chunker counts characters; a    *)
(* token stands for one.  What the patterns make of characters is kept as  *)
(* far as word boundaries go: a pattern that asks for one matches its token *)
(* only where no word character is next to it.  Matches that span tokens   *)
(* are left out.                                                           *)
(***************************************************************************)
EXTENDS Integers, Sequences, FiniteSets

Sets == INSTANCE FiniteSetsExt

CONSTANTS
    ChunkSize,      \* chunk_size, in characters
    Overlap,        \* int(chunk_size * overlap)
    MaxMemorySize   \* MAX_MEMORY_SIZE

ASSUME TextAssumption ==
    /\ ChunkSize \in Nat \ {0}
    /\ Overlap \in 0..(ChunkSize - 1)
    /\ MaxMemorySize \in Nat

\* The services build TextChunker() with the default overlap of a tenth, which
\* a chunk that is cut at a sentence is longer than.  The constructor accepts any
\* overlap below 1: with a larger one the loop may not advance past such a chunk
\* and drops the rest of the text.
ASSUME OverlapAssumption == Overlap < ChunkSize \div 2 + 3

\* The types the classifier has a pattern for.
SensitiveDataType ==
    {"email", "phone", "ssn", "credit_card", "ip_address", "api_key", "password"}

Token == {"word", "stop", "space", "control", "[REDACTED]"} \cup SensitiveDataType

\* Those whose pattern begins and ends with \b.
Bounded == {"phone", "ssn", "credit_card", "ip_address"}

\* Tokens with a word character at either end.
WordLike == {"word"} \cup SensitiveDataType

AllowedUseLabel == {"public", "internal", "confidential", "restricted"}

-----------------------------------------------------------------------------
(* TextNormalizer: runs of whitespace become one space, the ends are       *)
(* stripped, and only then the control characters are removed.             *)

\* The tokens at the places, in order.
Kept(text, places) ==
    LET Nth(n) == CHOOSE i \in places : Cardinality(places \cap 1..i) = n
    IN [n \in 1..Cardinality(places) |-> text[Nth(n)]]

Strip(text) ==
    LET kept == {i \in DOMAIN text : text[i] # "space"}
    IN IF kept = {} THEN <<>> ELSE SubSeq(text, Sets!Min(kept), Sets!Max(kept))

Collapsed(text) ==
    Kept(text, {i \in DOMAIN text :
                  text[i] # "space" \/ (i > 1 /\ text[i - 1] # "space")})

Normalized(text) ==
    LET stripped == Strip(Collapsed(text))
    IN Kept(stripped, {i \in DOMAIN stripped : stripped[i] # "control"})

\* validate_size.
TooLarge(text) == Len(text) > MaxMemorySize

-----------------------------------------------------------------------------
(* SensitiveDataClassifier and TextRedactor.                               *)

\* The pattern of text[i] matches there.
Matches(text, i) ==
    /\ text[i] \in SensitiveDataType
    /\ text[i] \in Bounded =>
          /\ i > 1 => text[i - 1] \notin WordLike
          /\ i < Len(text) => text[i + 1] \notin WordLike

FoundIn(text) == {i \in DOMAIN text : Matches(text, i)}

\* _detect_sensitive_data.
Detected(text) == {text[i] : i \in FoundIn(text)}

HighSensitivity == {"ssn", "credit_card", "api_key", "password"}
MediumSensitivity == {"email", "phone"}

\* _determine_allowed_use, for the types that were found.
AllowedUse(types) ==
    IF types \cap HighSensitivity # {} THEN "restricted"
    ELSE IF types \cap MediumSensitivity # {} THEN "confidential"
    ELSE "internal"

\* classify.
Classified(text) ==
    LET types == Detected(text)
    IN [types |-> types, label |-> IF types = {} THEN "public" ELSE AllowedUse(types)]

\* re.sub of one pattern, if its type was detected.
Substituted(text, types, type) ==
    [i \in DOMAIN text |->
        IF type \in types /\ text[i] = type /\ Matches(text, i) THEN "[REDACTED]" ELSE text[i]]

\* _redact_with_patterns: one pattern after the other, in the order of PATTERNS.
\* What replaces one match may free the token behind it for a later pattern, or
\* for one whose type was not detected.
RedactedPatterns(text, types) ==
    LET afterEmail == Substituted(text, types, "email")
        afterPhone == Substituted(afterEmail, types, "phone")
        afterSsn == Substituted(afterPhone, types, "ssn")
        afterCard == Substituted(afterSsn, types, "credit_card")
        afterAddress == Substituted(afterCard, types, "ip_address")
        afterKey == Substituted(afterAddress, types, "api_key")
    IN Substituted(afterKey, types, "password")

\* redact.
Redacted(text, classification) ==
    IF classification.types = {} THEN text
    ELSE RedactedPatterns(text, classification.types)

-----------------------------------------------------------------------------
(* TextChunker._chunk_fallback.                                            *)

\* The end of the chunk that starts after the first start characters: the
\* last sentence that ends in its second half, or chunk_size characters.
ChunkEnd(text, start) ==
    LET end == Sets!Min({start + ChunkSize, Len(text)})
        late == {i \in (start + ChunkSize \div 2 + 1)..(end - 2) :
                   text[i + 1] = "stop" /\ text[i + 2] = "space"}
    IN IF end < Len(text) /\ late # {} THEN Sets!Max(late) + 2 ELSE end

\* Mutated form: the overlap is skipped, not repeated.
NextStartSkipping(end) == end + Overlap

\* Where the chunk after one that ends at end starts.
NextStart(end) == end - Overlap

Content(text, bounds) == Strip(SubSeq(text, bounds.start + 1, bounds.end))

\* chunk_text, the chunks' bounds: text[start:end] has the characters
\* start+1..end.  A chunk of whitespace only is left out; the loop stops when it
\* would not advance, or at the end of the text.
Chunks(text) ==
    LET Rest[start \in 0..Len(text)] ==
          LET chunk == [start |-> start, end |-> ChunkEnd(text, start)]
              next == NextStart(chunk.end)
          IN (IF Content(text, chunk) = <<>> THEN <<>> ELSE <<chunk>>)
               \o IF next <= start \/ next >= Len(text) THEN <<>> ELSE Rest[next]
    IN Rest[0]
=============================================================================
