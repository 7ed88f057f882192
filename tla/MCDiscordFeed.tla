-------------------------- MODULE MCDiscordFeed --------------------------
EXTENDS DiscordFeed

CONSTANTS c1, c2, e1, r1

\* The stream has threads of its own: its lines come in one behaviour, the checks
\* and notifications of the pull request in another.
TheCases == {Lines, {c1, c2, e1}, {c1, e1, r1}}
=============================================================================
