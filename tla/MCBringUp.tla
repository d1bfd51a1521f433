------------------------------ MODULE MCBringUp ------------------------------
EXTENDS BringUp

(* The confidences measured by running the seed and reading its report lie *)
(* in what Scoring allows.                                                 *)
ASSUME MeasuredConfidences ==
    /\ 84 \in Confidences(4, 5) /\ 100 \in Confidences(0, 5)
    /\ {54, 58} \subseteq Confidences(2, 4) /\ {99, 100} \subseteq Confidences(4, 4)

----------------------------------------------------------------------------
(* Matching against its reference: the words of a concept stand next to    *)
(* each other in the answer, whatever marks are between or around them.    *)
Words == {"same", "result", "other"}
Texts == SeqOf([word : Words \cup {""}, mark : Marks] \ {[word |-> "", mark |-> "none"]}, 3)
Concepts == SeqOf([word : Words, mark : {"none"}], 2)

WordsOf(text) ==
    LET kept == SelectSeq(text, LAMBDA p : p.word # "") IN
    [i \in DOMAIN kept |-> kept[i].word]

AppearsIn(concept, answer) ==
    \E i \in 0..Len(answer) : \E j \in i..Len(answer) :
        SubSeq(answer, i + 1, j) = concept

HasStop(text) == \E i \in DOMAIN text : text[i].mark = "stop"

(* scoring.py:9 says "matched when it appears as a whole word/phrase".  So *)
(* it is for a concept of at least one word, as long as no full stop is    *)
(* involved; a match is always such an appearance.                         *)
ASSUME MatchedAsPhrase ==
    \A concept \in Concepts \ {<<>>}, answer \in Texts :
        LET found == match_concepts(answer, <<concept>>)[1] IN
        /\ found => AppearsIn(WordsOf(concept), WordsOf(answer))
        /\ ~HasStop(answer) => (found <=> AppearsIn(WordsOf(concept), WordsOf(answer)))

(* A full stop that ends the sentence hides the concept before it.         *)
ASSUME FullStopHidesConcept ==
    LET concept == <<[word |-> "same", mark |-> "none"],
                     [word |-> "result", mark |-> "none"]>>
        answer  == [concept EXCEPT ![2].mark = "stop"] IN
    /\ match_concepts(concept, <<concept>>) = <<TRUE>>
    /\ match_concepts(answer, <<concept>>) = <<FALSE>>

(* A concept without a word is found in the answers without a token only.  *)
ASSUME EmptyConceptNeedsEmptyAnswer ==
    \A answer \in Texts :
        match_concepts(answer, <<<<>>>>)[1] <=> normalise(answer) = <<>>
==============================================================================
