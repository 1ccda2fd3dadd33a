------------------------------ MODULE MCFeeds ------------------------------
(* The instance of Feeds that TLC checks: two feeds, two titles, two       *)
(* categories, an icon that decodes and one that does not, one icon        *)
(* request to a pass and two failures before a feed is given up.           *)
EXTENDS Feeds

CONSTANTS oldTitle, newTitle, home, news, goodIcon, badIcon
=============================================================================
