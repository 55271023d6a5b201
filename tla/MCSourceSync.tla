---------------------------- MODULE MCSourceSync ----------------------------
EXTENDS SourceSync

CONSTANTS w1, w2

\* The second question is older than the first; one more is published later.
MCCreated == <<0, 1, 2, 4>>
MCUnusable == {2}

\* Four questions on pages of three, of which the newest is skipped.
MCCreatedLong == <<0, 1, 2, 3>>
MCUnusableLong == {1, 4}

MCStarts == {<<"api", "AUTO">>, <<"cli", "AUTO">>}

=============================================================================
