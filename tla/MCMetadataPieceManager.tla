----------------------- MODULE MCMetadataPieceManager -----------------------
EXTENDS MetadataPieceManager

\* A rejection; a block and the shorter last block, right or wrong, which are
\* too short and too long for each other; and an answer over two blocks.
MCAnswers ==
  { <<>>, <<"Right">>, <<"Right", "Right">>, <<"Wrong", "Right">>,
    <<"Right", "Right", "Right">> }
=============================================================================
