---------------------------- MODULE MCDownloader ----------------------------
(* Small chats and sets of options for the runs of Downloader.             *)
EXTENDS Downloader

\* Messages 1 and 3 carry the same media, the others another body.
OneBody == CHOOSE b \in Bodies : TRUE
OtherBody == CHOOSE b \in Bodies : b # OneBody
MCBody == [m \in Msgs |-> IF m \in {1, 3} THEN OneBody ELSE OtherBody]
MCTextSecond == {2}
MCNone == {}

Plain == [sync |-> FALSE, dry_run |-> FALSE, resume |-> FALSE, reverse |-> TRUE,
          capped |-> FALSE, limit |-> 0, min_id |-> 0, max_id |-> MaxId + 1,
          asks |-> Msgs, keeps |-> Msgs]
Sync == [Plain EXCEPT !.sync = TRUE]

\* Sync runs oldest first over all messages, and other runs of every kind.
MCSoundSyncs ==
    {[Sync EXCEPT !.resume = TRUE, !.capped = TRUE],
     [Sync EXCEPT !.limit = 2, !.max_id = 3],
     [Sync EXCEPT !.dry_run = TRUE],
     [Plain EXCEPT !.reverse = FALSE, !.max_id = 3, !.asks = {2, 3}],
     [Plain EXCEPT !.keeps = {2}, !.min_id = 1]}

\* Sync runs that take two messages at a time.
MCPairs == {[Sync EXCEPT !.limit = 2]}

\* One at a time: as many as the text messages the chat begins with.
MCSingles == {[Sync EXCEPT !.limit = 1]}

\* A sync run newest first, as the web interface may ask for.
MCNewestFirst == {[Sync EXCEPT !.reverse = FALSE]}

MCSync == {Sync}
MCFirst == {1}
=============================================================================
