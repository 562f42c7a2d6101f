---------------------------- MODULE MCRetrieval -----------------------------
(* Model-checking instances of Retrieval. *)
EXTENDS Retrieval

CONSTANTS d1, d2, feed, directory

\* Both in the feed, one also in the distribution that may be skipped.
FeedAndDirectory ==
  [distribution \in {feed, directory} |->
     IF distribution = feed THEN {d1, d2} ELSE {d1}]

\* d1 is listed twice, d2 only in the distribution that may be skipped.
DirectoryOnly ==
  [distribution \in {feed, directory} |->
     IF distribution = feed THEN {d1} ELSE {d1, d2}]

=============================================================================
