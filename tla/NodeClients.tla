------------------------------ MODULE NodeClients ------------------------------
(***************************************************************************)
(* What each method of the nodes' clients asks of the service behind it:    *)
(* with which method of HTTP, and whether it changes something there. The   *)
(* operations of NodeOperations are made of these; the loop that every      *)
(* request goes through is in NodeRequests.                                 *)
(***************************************************************************)
EXTENDS NodeRequests

(* Requests. "changes" says whether the service is asked for more than to   *)
(* read; "spare" that it may be left out, "find" that a good answer may     *)
(* still lack what was looked for, "ignored" that a failure is, "consent"   *)
(* that refused credentials pause the run.                                  *)
Asks(client, method, changes) ==
    [client |-> client, method |-> method, changes |-> changes, spare |-> FALSE,
     find |-> FALSE, ignored |-> FALSE, consent |-> FALSE]

Reads(client, method) == Asks(client, method, FALSE)
Changes(client, method) == Asks(client, method, TRUE)
Finds(client) == [Reads(client, "GET") EXCEPT !.find = TRUE]
Looks(client) == [Finds(client) EXCEPT !.spare = TRUE]
Consents(ask) == [ask EXCEPT !.consent = TRUE]
Offloads == [Reads("storage", "PUT") EXCEPT !.spare = TRUE, !.ignored = TRUE]

-----------------------------------------------------------------------------
NotionQueryDatabase == Reads("notion", "POST")
NotionCreatePage == Changes("notion", "POST")
NotionGetPage == Reads("notion", "GET")
NotionGetPageContent == Reads("notion", "GET")
NotionUpdatePage == Changes("notion", "PATCH")
NotionArchivePage == NotionUpdatePage
NotionAppendBlocks == Changes("notion", "PATCH")
NotionSearch == Reads("notion", "POST")

SlackResolveChannel == Looks("slack")
SlackSendMessage == Changes("slack", "POST")
SlackReadMessages == Reads("slack", "GET")
SlackListChannels == Reads("slack", "GET")
SlackAddReaction == Changes("slack", "POST")

DiscordWebhookMessage == Changes("discord", "POST")
DiscordSendMessage == Changes("discord", "POST")
DiscordGetMessages == Reads("discord", "LIST")
DiscordAddReaction == Changes("discord", "PUT")
DiscordCreateThread == Changes("discord", "POST")

TwilioSendSms == Changes("twilio", "POST")
TwilioMakeCall == Changes("twilio", "POST")
TwilioGetMessage == Reads("twilio", "GET")
TwilioGetCall == Reads("twilio", "GET")
TwilioLookupPhone == Reads("lookup", "GET")
TwilioListMessages == Reads("twilio", "GET")

SupabaseSelect == Reads("supabase", "LIST")
SupabaseInsert == Changes("supabase", "POST")
SupabaseUpdate == Changes("supabase", "PATCH")
SupabaseUpsert == Changes("supabase", "POST")
SupabaseDelete == Changes("supabase", "DELETE")

SheetsReadData == Reads("sheets", "GET")
SheetsAppendData == Changes("sheets", "POST")
SheetsUpdateData == Changes("sheets", "PUT")
SheetsClearData == Changes("sheets", "POST")
SheetsGetMetadata == Reads("sheets", "GET")
SheetsCreateSheet == Changes("sheets", "POST")

(* The errors of Sheets are told apart by their text; only this one matters.*)
Unauthorised(answer) == answer = "denied"

(* An empty list of videos, or of channels, is an error.                    *)
YouTubeSearch == Reads("youtube", "GET")
YouTubeVideoDetails == Finds("youtube")
YouTubeComments == Reads("youtube", "GET")
YouTubeChannelInfo == Finds("youtube")
YouTubeTranscript == Reads("youtube", "GET")
=============================================================================
