----------------------- MODULE MCTranscriptProcessing -----------------------
(***************************************************************************)
(* TLC's instance of TranscriptProcessing: every provider, and counts such *)
(* that one prompt, two prompts or all five reach the safe range's end.    *)
(***************************************************************************)
EXTENDS TranscriptProcessing

MCProviders == AllProviders
MCTokenCounts == {-1, 0, 8, 20, 21}
MCMockInputTokens == {1, 2}

=============================================================================
