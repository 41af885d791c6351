---------------------------- MODULE NodeOperations ----------------------------
(***************************************************************************)
(* One execution of an integration node by the graph executor: the node's  *)
(* configuration is checked, the requests of the operation follow one      *)
(* another through the node's client (NodeClients), and the executor      *)
(* records the conclusion or runs the node again. Each operation is a row: *)
(* what it refuses to start without and what it asks of which service.     *)
(*                                                                         *)
(* A conclusion is "success", "returned" (an error in the output),         *)
(* "paused" (the output asks for a new authorization), "final" or "again"  *)
(* (an exception, retryable or not). A configuration has one flaw at most, *)
(* so that the order of the checks, all before the first request, is moot. *)
(***************************************************************************)
EXTENDS NodeClients

CONSTANT max_attempts   \* the executor's

ASSUME NodeAssumption == max_attempts \in Nat \ {0}

VARIABLES
    nodeKind, operation, flaw,
    nodeRun,    \* attempts of the executor
    nodeStep,   \* "check", "ask", "wait", "concluded", "over"
    at,         \* the request that is next or waited for
    conclusion,
    ledger,     \* per request: done, unsure, and answers read as success
    recorded    \* [trace, breaker]

nodeVars == <<requestVars, nodeKind, operation, flaw, nodeRun, nodeStep, at, conclusion, ledger,
              recorded>>

-----------------------------------------------------------------------------
(* "needs": of each set one parameter at least; "checked": refused for good *)
(* if given in a form that cannot be read; "unchecked": such a form raises. *)
Row(needs, checked, unchecked, asks) ==
    [needs |-> needs, checked |-> checked, unchecked |-> unchecked, asks |-> asks]

Needs(parameters, asks) == Row({{p} : p \in parameters}, {}, {}, asks)
Takes(row, checked, unchecked) == [row EXCEPT !.checked = checked, !.unchecked = unchecked]

-----------------------------------------------------------------------------
notion_query_database ==
    Takes(Needs({"database_id"}, <<NotionQueryDatabase>>), {"filter", "sorts"}, {"page_size"})
notion_create_page ==
    Row({{"database_id", "page_id"}}, {"properties", "content_blocks"}, {},
        <<NotionCreatePage>>)
notion_update_page == Takes(Needs({"page_id"}, <<NotionUpdatePage>>), {"properties"}, {})
notion_get_page ==
    Needs({"page_id"}, <<NotionGetPage, [NotionGetPageContent EXCEPT !.ignored = TRUE]>>)
notion_archive_page == Needs({"page_id"}, <<NotionArchivePage>>)
notion_append_content ==
    Takes(Needs({"page_id", "content_blocks"}, <<NotionAppendBlocks>>),
          {"content_blocks"}, {})
notion_search == Takes(Needs({}, <<NotionSearch>>), {}, {"page_size"})

(* A channel given by its name is looked up first.                          *)
slack_send_message == Needs({"channel"}, <<SlackResolveChannel, SlackSendMessage>>)
slack_read_messages ==
    Takes(Needs({"channel"}, <<SlackResolveChannel, SlackReadMessages>>), {}, {"message_limit"})
slack_list_channels == Needs({}, <<SlackListChannels>>)
slack_add_reaction ==
    Needs({"channel", "message_ts"}, <<SlackResolveChannel, SlackAddReaction>>)
slack_webhook == Needs({"webhook_url"}, <<Changes("slackhook", "POST")>>)

discord_send_webhook == Row({{"content", "use_embed"}}, {}, {}, <<DiscordWebhookMessage>>)
discord_send_message ==
    Row({{"channel_id"}, {"content", "use_embed"}}, {}, {}, <<DiscordSendMessage>>)
discord_get_messages ==
    Takes(Needs({"channel_id"}, <<DiscordGetMessages>>), {}, {"message_limit"})
discord_add_reaction == Needs({"channel_id", "message_id"}, <<DiscordAddReaction>>)
discord_create_thread ==
    Needs({"channel_id", "message_id", "thread_name"}, <<DiscordCreateThread>>)

(* A number, an address or a range in a form it does not know counts as     *)
(* missing, here and below.                                                 *)
twilio_send_sms == Needs({"to", "from", "message"}, <<TwilioSendSms>>)
twilio_make_call ==
    Takes(Needs({"to", "from", "call_message"}, <<TwilioMakeCall>>), {}, {"call_timeout"})
twilio_get_message == Needs({"message_sid"}, <<TwilioGetMessage>>)
twilio_get_call == Needs({"call_sid"}, <<TwilioGetCall>>)
twilio_lookup_phone == Needs({"to"}, <<TwilioLookupPhone>>)
twilio_list_messages == Takes(Needs({}, <<TwilioListMessages>>), {"to", "from"}, {})

sheets_read_data == Needs({"spreadsheet_id", "range"}, <<Consents(SheetsReadData)>>)
sheets_append_data ==
    Takes(Needs({"spreadsheet_id", "values"}, <<Consents(SheetsAppendData)>>),
          {"values"}, {})
sheets_update_data ==
    Takes(Needs({"spreadsheet_id", "range", "values"}, <<Consents(SheetsUpdateData)>>),
          {"values"}, {})
sheets_clear_data == Needs({"spreadsheet_id", "range"}, <<SheetsClearData>>)
sheets_get_metadata == Needs({"spreadsheet_id"}, <<SheetsGetMetadata>>)
sheets_create_sheet == Needs({"spreadsheet_id", "sheet_title"}, <<SheetsCreateSheet>>)

gmail_send_email ==
    Takes(Needs({"to_email"}, <<Consents(Changes("gmail", "POST"))>>), {"cc", "bcc", "body"}, {})
(* The list, and each message of it: one stands for all.                    *)
gmail_read_emails ==
    Takes(Needs({}, <<Reads("inbox", "GET"), [Reads("inbox", "GET") EXCEPT !.spare = TRUE]>>),
          {}, {"max_results"})
gmail_get_labels == Needs({}, <<Reads("inbox", "GET")>>)

supabase_select == Takes(Needs({"table_name"}, <<SupabaseSelect>>), {}, {"filters"})
supabase_insert == Needs({"table_name", "data"}, <<SupabaseInsert>>)
supabase_update ==
    Takes(Needs({"table_name", "data", "filters"}, <<SupabaseUpdate>>), {}, {"filters"})
supabase_upsert == Needs({"table_name", "data"}, <<SupabaseUpsert>>)
supabase_delete ==
    Takes(Needs({"table_name", "filters"}, <<SupabaseDelete>>), {}, {"filters"})
supabase_rpc == Needs({"function_name"}, <<Changes("rpc", "POST")>>)

youtube_search_videos ==
    Takes(Needs({"query"}, <<YouTubeSearch>>), {}, {"max_results"})
youtube_get_video_details == Needs({"video_id"}, <<YouTubeVideoDetails>>)
youtube_get_video_comments ==
    Takes(Needs({"video_id"}, <<YouTubeComments, Offloads>>), {}, {"max_results"})
youtube_get_transcript == Needs({"video_id"}, <<YouTubeTranscript, Offloads>>)
youtube_get_channel_info == Needs({"channel_id"}, <<YouTubeChannelInfo>>)

(* Of a text that has a chunk.                                              *)
rag_upsert ==
    Needs({"content"}, <<Reads("embedding", "POST"), Changes("knowledge", "POST")>>)
rag_search ==
    Takes(Needs({"content"}, <<Reads("embedding", "POST"), Reads("knowledge", "GET")>>), {},
          {"limit", "similarity_threshold", "keyword_boost"})
rag_delete == Row({{"filename", "document_ids"}}, {}, {}, <<Changes("knowledge", "DELETE")>>)

webhook_get == Needs({"url"}, <<Reads("webhook", "GET")>>)
webhook_change(method) == Needs({"url"}, <<Changes("webhook", method)>>)
mistral_parse == Needs({"document"}, <<Reads("mistral", "POST"), Offloads>>)
perplexity_search == Takes(Needs({"prompt"}, <<Changes("perplexity", "POST")>>), {}, {"temperature"})
browser_fetch ==
    Takes(Needs({"url"}, <<Reads("browser", "POST")>>), {}, {"timeout", "max_content_size"})
browser_screenshot == [browser_fetch EXCEPT !.asks = <<Reads("browser", "IMAGE")>>]
openai_complete ==
    Takes(Needs({"prompt"}, <<Changes("openai", "POST")>>), {}, {"temperature", "max_tokens"})
anthropic_complete ==
    Takes(Needs({"prompt"}, <<Changes("anthropic", "POST")>>), {}, {"temperature", "max_tokens"})
gemini_generate ==
    Takes(Needs({"prompt"}, <<Changes("gemini", "POST")>>), {}, {"temperature", "max_output_tokens"})
agent_reason ==
    Takes(Needs({"user_content"}, <<Changes("agent", "POST")>>), {},
          {"temperature", "max_output_tokens"})

-----------------------------------------------------------------------------
(* What each node's manifest offers, and which of it is only to read.       *)
Offers(reading, changing) == [o \in reading \cup changing |-> o \in changing]

notion_manifest ==
    Offers({"query_database", "get_page", "search"},
           {"create_page", "update_page", "archive_page", "append_content"})
slack_manifest == Offers({"read_messages", "list_channels"}, {"send_message", "add_reaction"})
discord_manifest ==
    Offers({"get_messages"}, {"send_webhook", "send_message", "add_reaction", "create_thread"})
twilio_manifest ==
    Offers({"get_message", "get_call", "lookup_phone", "list_messages"}, {"send_sms", "make_call"})
sheets_manifest ==
    Offers({"READ_DATA", "GET_METADATA"}, {"APPEND_DATA", "UPDATE_DATA", "CLEAR_DATA", "CREATE_SHEET"})
gmail_manifest == Offers({"read_emails", "get_labels"}, {"send_email"})
supabase_manifest == Offers({"SELECT"}, {"INSERT", "UPDATE", "UPSERT", "DELETE", "RPC"})
youtube_manifest ==
    Offers({"search_videos", "get_video_details", "get_video_comments", "get_transcript",
            "get_channel_info"}, {})
rag_manifest == Offers({"SEARCH"}, {"UPSERT", "DELETE"})
webhook_manifest == Offers({"GET"}, {"POST", "PUT", "PATCH", "DELETE"})
mistral_manifest == Offers({"run"}, {})
perplexity_manifest == Offers({}, {"run"})
browser_manifest == Offers({"fetch", "extract_text", "screenshot"}, {})
openai_manifest == Offers({}, {"run"})
anthropic_manifest == Offers({}, {"run"})
gemini_manifest == Offers({}, {"run"})
agent_manifest == Offers({}, {"run"})

(* A node: the row of each operation it handles, what it concludes without  *)
(* credentials, with broken ones, without a parameter, of an operation it   *)
(* does not know, and of which failed requests it raises, finally or not;   *)
(* it returns the others. One that is "sealed" cannot decrypt credentials.  *)
Node(manifest, rows) ==
    [offers |-> manifest, rows |-> rows, absent |-> "final", broken |-> "again", sealed |-> FALSE,
     missing |-> "final", unknown |-> "final", final |-> {}, again |-> {}]

Everything == DOMAIN Performed \cup {"method"}

NotionNode ==
    Node(notion_manifest,
         [query_database |-> notion_query_database, create_page |-> notion_create_page,
          update_page |-> notion_update_page, get_page |-> notion_get_page,
          archive_page |-> notion_archive_page, append_content |-> notion_append_content,
          search |-> notion_search])

SlackNode ==
    Node(slack_manifest,
         [send_message |-> slack_send_message, read_messages |-> slack_read_messages,
          list_channels |-> slack_list_channels, add_reaction |-> slack_add_reaction])

(* With a webhook for its credentials, the default, the operation is not    *)
(* looked at.                                                               *)
SlackWebhookNode ==
    Node(slack_manifest, [o \in DOMAIN slack_manifest \cup {"other"} |-> slack_webhook])

DiscordNode ==
    Node(discord_manifest,
         [send_webhook |-> discord_send_webhook, send_message |-> discord_send_message,
          get_messages |-> discord_get_messages, add_reaction |-> discord_add_reaction,
          create_thread |-> discord_create_thread])

TwilioNode ==
    Node(twilio_manifest,
         [send_sms |-> twilio_send_sms, make_call |-> twilio_make_call,
          get_message |-> twilio_get_message, get_call |-> twilio_get_call,
          lookup_phone |-> twilio_lookup_phone, list_messages |-> twilio_list_messages])

GoogleSheetsNode ==
    Node(sheets_manifest,
         [READ_DATA |-> sheets_read_data, APPEND_DATA |-> sheets_append_data,
          UPDATE_DATA |-> sheets_update_data, CLEAR_DATA |-> sheets_clear_data,
          GET_METADATA |-> sheets_get_metadata, CREATE_SHEET |-> sheets_create_sheet])

GmailNode ==
    Node(gmail_manifest, [send_email |-> gmail_send_email, read_emails |-> gmail_read_emails,
                          get_labels |-> gmail_get_labels])

(* An error is a ValueError or an answer here, never a final one.           *)
SupabaseNode ==
    [Node(supabase_manifest,
          [SELECT |-> supabase_select, INSERT |-> supabase_insert, UPDATE |-> supabase_update,
           UPSERT |-> supabase_upsert, DELETE |-> supabase_delete, RPC |-> supabase_rpc])
     EXCEPT !.absent = "again", !.missing = "returned", !.unknown = "returned"]

(* A broken connection is passed over for a key given directly.             *)
Returning(node) ==
    [node EXCEPT !.absent = "returned", !.broken = "returned", !.missing = "returned",
                 !.unknown = "returned"]

YouTubeNode ==
    Returning(Node(youtube_manifest,
                   [search_videos |-> youtube_search_videos,
                    get_video_details |-> youtube_get_video_details,
                    get_video_comments |-> youtube_get_video_comments,
                    get_transcript |-> youtube_get_transcript,
                    get_channel_info |-> youtube_get_channel_info]))

MistralParseNode == Returning(Node(mistral_manifest, [run |-> mistral_parse]))
PerplexityNode == Returning(Node(perplexity_manifest, [run |-> perplexity_search]))
WebhookNode ==
    Returning(Node(webhook_manifest,
                   [o \in DOMAIN webhook_manifest |->
                        IF o = "GET" THEN webhook_get ELSE webhook_change(o)]))

(* It imports the cipher by a name that is none, takes one that does nothing*)
(* for it, and reads what is still encrypted.                               *)
RAGNode ==
    [Node(rag_manifest, [UPSERT |-> rag_upsert, SEARCH |-> rag_search, DELETE |-> rag_delete])
     EXCEPT !.again = Everything, !.sealed = TRUE]

(* Anything but a screenshot is a fetch.                                    *)
BrowserUseNode ==
    [Node(browser_manifest,
          [o \in DOMAIN browser_manifest \cup {"other"} |->
               IF o = "screenshot" THEN browser_screenshot ELSE browser_fetch])
     EXCEPT !.broken = "final"]

(* Errors on their lists were tried again and are final; the others go up   *)
(* as they are, and the executor runs those again.                          *)
Raising(node, finals) ==
    [node EXCEPT !.absent = "again", !.final = finals, !.again = Everything \ finals]

OpenAINode == Raising(Node(openai_manifest, [run |-> openai_complete]), OpenAIRequest.again)
AnthropicNode ==
    Raising(Node(anthropic_manifest, [run |-> anthropic_complete]), AnthropicRequest.again)
GeminiNode == Raising(Node(gemini_manifest, [run |-> gemini_generate]), Everything)
(* Whatever was raised within is raised again as retryable.                 *)
AgentNode == Raising(Node(agent_manifest, [run |-> agent_reason]), {})

Nodes == [notion |-> NotionNode, slack |-> SlackNode, slackWebhook |-> SlackWebhookNode,
          discord |-> DiscordNode, twilio |-> TwilioNode, googleSheets |-> GoogleSheetsNode,
          gmail |-> GmailNode, supabase |-> SupabaseNode, youtube |-> YouTubeNode,
          mistralParse |-> MistralParseNode, perplexity |-> PerplexityNode,
          webhook |-> WebhookNode, rag |-> RAGNode, browserUse |-> BrowserUseNode,
          openai |-> OpenAINode, anthropic |-> AnthropicNode, gemini |-> GeminiNode,
          agent |-> AgentNode]

-----------------------------------------------------------------------------
handler == Nodes[nodeKind]
Handled == operation \in DOMAIN handler.rows
plan == handler.rows[operation]
wanting == plan.asks[at]

(* What can be wrong with a configuration. Credentials are "broken" if they *)
(* cannot be used and there are no others, "unfit" if they are the Discord  *)
(* webhook's and the operation the bot's, or the reverse. A webhook's URL is*)
(* a parameter. Only the Sheets node looks at the scopes it was granted.    *)
Flaw(kind, of) == [kind |-> kind, of |-> of]

Flaws(n, o) ==
    {Flaw("none", {})}
    \cup {Flaw(k, {}) : k \in IF n \in {"webhook", "slackWebhook"} THEN {}
                              ELSE {"absent", "broken"}}
    \cup (IF n = "googleSheets" THEN {Flaw("scopes", {})} ELSE {})
    \cup (IF n = "discord" THEN {Flaw("unfit", {})} ELSE {})
    \cup IF o \notin DOMAIN Nodes[n].rows THEN {}
         ELSE LET r == Nodes[n].rows[o]
              IN  {Flaw("missing", s) : s \in r.needs}
                  \cup {Flaw("checked", {p}) : p \in r.checked}
                  \cup {Flaw("unchecked", {p}) : p \in r.unchecked}

(* A node with one operation does not ask for it.                           *)
OperationsOf(n) ==
    DOMAIN Nodes[n].offers \cup (IF "run" \in DOMAIN Nodes[n].offers THEN {} ELSE {"other"})

NodeInit ==
    /\ RequestInit
    /\ nodeKind \in DOMAIN Nodes
    /\ operation \in OperationsOf(nodeKind)
    /\ flaw \in Flaws(nodeKind, operation)
    /\ nodeRun = 1 /\ nodeStep = "check" /\ at = 1 /\ conclusion = "none"
    /\ ledger = [i \in 1 .. 2 |-> [done |-> 0, unsure |-> 0, read |-> 0]]
    /\ recorded = [trace |-> "RUNNING", breaker |-> "none"]

configured == <<nodeKind, operation, flaw>>

Conclude(c) == conclusion' = c /\ nodeStep' = "concluded"

Refusal ==
    IF flaw.kind = "absent" THEN handler.absent
    ELSE IF handler.sealed THEN "again"
    ELSE CASE flaw.kind = "broken" -> handler.broken
           [] flaw.kind = "scopes" -> "paused"
           [] flaw.kind = "unfit" -> "returned"
           [] flaw.kind = "missing" -> handler.missing
           [] flaw.kind = "checked" -> "final"
           [] flaw.kind = "unchecked" -> "again"
           [] flaw.kind = "none" -> handler.unknown

(* execute: credentials, operation and parameters before any request.       *)
Check ==
    /\ nodeStep = "check"
    /\ IF flaw.kind = "none" /\ Handled /\ ~handler.sealed
       THEN at' = 1 /\ nodeStep' = "ask" /\ UNCHANGED conclusion
       ELSE Conclude(Refusal) /\ UNCHANGED at
    /\ UNCHANGED <<requestVars, configured, nodeRun, ledger, recorded>>

Send ==
    /\ nodeStep = "ask" /\ at \in DOMAIN plan.asks
    /\ Request(wanting.client, wanting.method)
    /\ nodeStep' = "wait"
    /\ UNCHANGED <<configured, nodeRun, at, conclusion, ledger, recorded>>

Skip ==
    /\ nodeStep = "ask" /\ at \in DOMAIN plan.asks /\ wanting.spare
    /\ at' = at + 1
    /\ UNCHANGED <<requestVars, configured, nodeRun, nodeStep, conclusion, ledger, recorded>>

FailedRequest ==
    IF wanting.consent /\ Unauthorised(result) THEN "paused"
    ELSE IF result \in handler.final THEN "final"
    ELSE IF result \in handler.again THEN "again" ELSE "returned"

Booked ==
    ledger' = [ledger EXCEPT ![at] = [done |-> @.done + done, unsure |-> @.unsure + unsure,
                                      read |-> @.read + (IF result = "success" THEN 1 ELSE 0)]]

Receive ==
    /\ nodeStep = "wait" /\ call.step = "over"
    /\ Booked
    /\ IF result = "success" \/ wanting.ignored
       THEN nodeStep' = "ask" /\ at' = at + 1 /\ UNCHANGED conclusion
       ELSE Conclude(FailedRequest) /\ UNCHANGED at
    /\ UNCHANGED <<requestVars, configured, nodeRun, recorded>>

(* The channel or the video is not in the answer.                           *)
NotFound ==
    /\ nodeStep = "wait" /\ call.step = "over" /\ result = "success" /\ wanting.find
    /\ Booked /\ Conclude("returned") /\ served' = FALSE
    /\ UNCHANGED <<call, done, unsure, result, configured, nodeRun, at, recorded>>

Finish ==
    /\ nodeStep = "ask" /\ at \notin DOMAIN plan.asks
    /\ Conclude("success")
    /\ UNCHANGED <<requestVars, configured, nodeRun, at, ledger, recorded>>

RunAgain_AlsoReturned ==
    /\ nodeStep = "concluded" /\ conclusion \in {"again", "returned", "success"}
    /\ nodeRun < max_attempts
    /\ nodeRun' = nodeRun + 1 /\ nodeStep' = "check" /\ conclusion' = "none"
    /\ UNCHANGED <<requestVars, configured, at, ledger, recorded>>

(* The executor: a retryable exception has the node run again from its      *)
(* start; an output is a success whatever its status says.                  *)
RunAgain ==
    /\ nodeStep = "concluded" /\ conclusion = "again" /\ nodeRun < max_attempts
    /\ nodeRun' = nodeRun + 1 /\ nodeStep' = "check" /\ conclusion' = "none"
    /\ UNCHANGED <<requestVars, configured, at, ledger, recorded>>

RecordSucceeded ==
    /\ nodeStep = "concluded" /\ conclusion \in {"success", "returned", "paused"}
    /\ nodeStep' = "over"
    /\ recorded' = [trace |-> "SUCCESS", breaker |-> "success"]
    /\ UNCHANGED <<requestVars, configured, nodeRun, at, conclusion, ledger>>

RecordFailed ==
    /\ nodeStep = "concluded"
    /\ conclusion = "final" \/ (conclusion = "again" /\ nodeRun = max_attempts)
    /\ nodeStep' = "over"
    /\ recorded' = [trace |-> "FAILED", breaker |-> "failure"]
    /\ UNCHANGED <<requestVars, configured, nodeRun, at, conclusion, ledger>>

AwaitAnswer ==
    /\ nodeStep = "wait" /\ RequestNext
    /\ UNCHANGED <<configured, nodeRun, nodeStep, at, conclusion, ledger, recorded>>

NodeNext ==
    Check \/ Send \/ Skip \/ AwaitAnswer \/ Receive \/ NotFound \/ Finish
    \/ RunAgain \/ RecordSucceeded \/ RecordFailed

NodeSpec == NodeInit /\ [][NodeNext]_nodeVars

-----------------------------------------------------------------------------
NodeTypeOK ==
    /\ RequestTypeOK
    /\ nodeKind \in DOMAIN Nodes /\ flaw \in Flaws(nodeKind, operation)
    /\ nodeRun \in 1 .. max_attempts /\ at \in 1 .. 3
    /\ nodeStep \in {"check", "ask", "wait", "concluded", "over"}
    /\ conclusion \in {"none", "success", "returned", "paused", "final", "again"}
    /\ DOMAIN ledger = 1 .. 2
    /\ recorded \in [trace : {"RUNNING", "SUCCESS", "FAILED"},
                     breaker : {"none", "success", "failure"}]

(* Through the attempts of the executor and those of the client within each:*)
(* what changes something is done, at the most, once for each answer that   *)
(* could not be read and once for the success that was; once read as a      *)
(* success it is never asked for again. A node that concludes with success  *)
(* has read one of each request that it may not do without, and one that    *)
(* concludes otherwise has not read that of a change.                       *)
NodeAccounts ==
    /\ DoneIsAccounted
    /\ nodeStep # "check" /\ Handled => \A i \in DOMAIN plan.asks :
         LET ask == plan.asks[i]
             answered == ledger[i]
         IN  /\ ask.changes =>
                  answered.read <= 1 /\ answered.done <= answered.unsure + answered.read
             /\ conclusion = "success" => ask.spare \/ ask.ignored \/ answered.read > 0
             /\ conclusion \in {"returned", "paused", "final", "again"} /\ ask.changes =>
                  answered.read = 0

(* An operation that a node offers, with nothing wrong in its configuration *)
(* and a service that answers as it should, succeeds, and changes something *)
(* exactly if it is one that says so: manifest, handler, client and the     *)
(* form of the answers agree.                                               *)
Works ==
    /\ conclusion = "success"
    /\ handler.offers[operation] =
         (\E i \in DOMAIN plan.asks : plan.asks[i].changes /\ ledger[i].done > 0)

AtItsBest ==
    nodeStep = "over" /\ flaw.kind = "none" /\ served /\ operation \in DOMAIN handler.offers

(* The operations that cannot do what their manifests say: the Discord      *)
(* client does not know the method of one and reads no lists, the browser's *)
(* reads no pictures, a Slack node with a webhook sends its message whatever*)
(* it is asked to read, and the RAG node cannot read its credentials.       *)
BrokenOffers ==
    {<<"discord", "add_reaction">>, <<"discord", "get_messages">>, <<"browserUse", "screenshot">>,
     <<"slackWebhook", "read_messages">>, <<"slackWebhook", "list_channels">>,
     <<"rag", "UPSERT">>, <<"rag", "SEARCH">>, <<"rag", "DELETE">>}

OfferedWorks == AtItsBest /\ <<nodeKind, operation>> \notin BrokenOffers => Works
=============================================================================
