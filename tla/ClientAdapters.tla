--------------------------- MODULE ClientAdapters ---------------------------
(***************************************************************************)
(* What the five download-client adapters make of a client's answers:      *)
(* the id add_url returns, the id list_items lists the same download       *)
(* under, and which downloads are listed at all.  The clients themselves   *)
(* are external; their part is Shown.                                      *)
(*                                                                         *)
(* A download is named by the release it was started for; an id is a       *)
(* handle <<space, release>> or NoId, the empty string.                    *)
(***************************************************************************)
EXTENDS Integers

CONSTANT NoId

Kinds == {"qbittorrent", "deluge", "transmission", "sabnzbd", "nzbget"}

(* The handle a client itself gives a download. *)
Handle(kind, r) ==
  CASE kind \in {"qbittorrent", "transmission", "deluge"} -> <<"hash", r>>
    [] kind = "sabnzbd" -> <<"nzo", r>>
    [] kind = "nzbget"  -> <<"nzbid", r>>

(* add_url, after the client has taken release r, when its list (of this   *)
(* category or not, as the adapter asks) holds queue.  qBittorrent and     *)
(* NZBGet do not return the new id: the adapter takes the first listed.    *)
AddReturns(kind, r, queue) ==
  CASE kind \in {"qbittorrent", "nzbget"} -> {Handle(kind, q) : q \in queue \cup {r}}
    [] kind \in {"deluge", "transmission"} -> {Handle(kind, r)}
    [] kind = "sabnzbd" -> {Handle(kind, r), NoId}

(* The id list_items builds.  Transmission's request does not name the     *)
(* field hashString, so the fallback, the session's number, is taken.      *)
SlipListedId(kind, r) ==      \* qBittorrent's hash dropped for the position in the list
  IF kind \in {"transmission", "qbittorrent"} THEN <<"number", r>> ELSE Handle(kind, r)
ListedId(kind, r) ==
  IF kind = "transmission" THEN <<"number", r>> ELSE Handle(kind, r)

(* Which downloads the adapter's request returns: SABnzbd and NZBGet are   *)
(* asked for their queue, which a finished or failed job leaves for the    *)
(* client's history; Transmission for what was active recently.            *)
Shown(kind, state) ==
  CASE kind \in {"qbittorrent", "deluge"} -> state \in {"active", "complete", "error"}
    [] kind = "transmission"              -> state \in {"active", "complete", "error"}
    [] kind \in {"sabnzbd", "nzbget"}     -> state = "active"

(* The normalised status of a listed download.  _TR_STATUS has no error.   *)
Status(kind, state) ==
  CASE state = "complete" -> "complete"
    [] state = "error" /\ kind # "transmission" -> "error"
    [] OTHER -> "downloading"
=============================================================================
