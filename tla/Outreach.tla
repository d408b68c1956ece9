-------------------------------- MODULE Outreach --------------------------------
(***************************************************************************)
(* Social posts, installed plug-ins, keywords and marketing's tables       *)
(* (services/social.py, marketplace.py, seo.py and marketing.py with their *)
(* handlers) as one session sees them.                                     *)
(***************************************************************************)
EXTENDS TenantRows

CONSTANTS
    Listings,           \* of the marketplace
    Kinds,              \* marketing's tables, segments among them
    MaxPosts, MaxInstallations, MaxKeywords, MaxAssets, MaxTaken    \* bounds

ASSUME OutreachAssumption ==
    /\ "segment" \in Kinds
    /\ {MaxPosts, MaxInstallations, MaxKeywords, MaxAssets, MaxTaken} \subseteq Nat

VARIABLES
    posts,          \* rows of social_posts; taken and reopened: history
    installations,  \* rows of marketplace_installations; toggled: history
    keywords,       \* rows of seo_keywords
    assets          \* rows of campaigns, email_templates, ..., segments

outreachVars == <<posts, installations, keywords, assets>>

Live == {"installed", "active", "inactive"}

SocialPost == [tenant : Tenants, deleted : BOOLEAN,
    status : {"draft", "scheduled", "published", "failed", "cancelled"},
    taken : 0 .. MaxTaken,      \* times the platform has taken it
    reopened : Nat]             \* times a PATCH took "published" back
Installation == [tenant : Tenants, listing : Listings, status : Live \cup {"uninstalled"},
                 toggled : BOOLEAN]     \* once after it had been uninstalled
Keyword == [tenant : Tenants, deleted : BOOLEAN]
Asset == [tenant : Tenants, deleted : BOOLEAN, kind : Kinds]

OutreachTypeOK ==
    /\ posts \in Seq(SocialPost) /\ installations \in Seq(Installation)
    /\ keywords \in Seq(Keyword) /\ assets \in Seq(Asset)

OutreachInit == posts = <<>> /\ installations = <<>> /\ keywords = <<>> /\ assets = <<>>

-----------------------------------------------------------------------------
\* create_post: what has a time is scheduled, though nothing publishes it then.
NewPost(t, status) == posts' = Inserted(posts,
    [tenant |-> t, deleted |-> FALSE, status |-> status, taken |-> 0, reopened |-> 0])

CreatePost(t) == \E status \in {"draft", "scheduled"} :
    /\ Len(posts) < MaxPosts
    /\ NewPost(t, status)
    /\ UNCHANGED <<installations, keywords, assets>>

\* The PATCH of a post may set any of these, whatever it was.
UpdatePost(t, p) == \E status \in {"draft", "scheduled", "published", "cancelled"} :
    /\ Gets(posts, p, t) /\ posts[p].reopened < MaxTaken
    /\ posts' = [posts EXCEPT ![p].status = status,
        ![p].reopened = IF posts[p].status = "published" /\ status # "published" THEN @ + 1 ELSE @]
    /\ UNCHANGED <<installations, keywords, assets>>

\* Mutant: only a deleted post cannot be published.
Unpublished(p) == TRUE

\* What publish_post asks of a post; no post has the status "deleted".
Publishable(p) == posts[p].status # "published"

\* publish_post: the platform takes the post, or the status says failed and the
\* error is raised again.
Published(p) ==
    \/ /\ posts[p].taken < MaxTaken
       /\ posts' = [posts EXCEPT ![p].status = "published", ![p].taken = @ + 1]
    \/ posts' = [posts EXCEPT ![p].status = "failed"]

PublishPost(t, p) ==
    /\ Gets(posts, p, t) /\ Publishable(p)
    /\ Published(p)
    /\ UNCHANGED <<installations, keywords, assets>>

DeletePost(t, p) ==
    /\ Gets(posts, p, t)
    /\ posts' = SoftDeleted(posts, p)
    /\ UNCHANGED <<installations, keywords, assets>>

\* The handlers of posts and of marketing's tables put the rows themselves into the
\* response, which no JSON can be made of: it fails when there is a row to show.
Answer(found) == IF found = {} THEN "empty" ELSE "error"

\* list_posts and the calendar do not ask whether a post is deleted.
PostsOf(t) == OfTenant(posts, t)
ListPosts(t, page, limit) == Answer(Page(PostsOf(t), page, limit))
GetPost(t, p) == IF Gets(posts, p, t) THEN "error" ELSE "not_found"
GetCalendar(t) == Answer({p \in OfTenant(posts, t) : posts[p].status = "scheduled"})

-----------------------------------------------------------------------------
\* Mutant: what is switched off does not count as installed.
SwitchedOn(t, listing) == {i \in OfTenant(installations, t) :
    installations[i].listing = listing /\ installations[i].status \in Live \ {"inactive"}}

\* What install takes for an installation that exists.
Existing(t, listing) == {i \in OfTenant(installations, t) :
    installations[i].listing = listing /\ installations[i].status \in Live}

Install(t, listing) ==
    /\ Existing(t, listing) = {}
    /\ installations' = Inserted(installations,
        [tenant |-> t, listing |-> listing, status |-> "installed", toggled |-> FALSE])

InstallPlugin(t, listing) ==
    /\ Len(installations) < MaxInstallations
    /\ Install(t, listing)
    /\ UNCHANGED <<posts, keywords, assets>>

\* get_installation finds any installation of the tenant, uninstalled ones too.
FindInstallation(t, i) == i \in OfTenant(installations, t)

Uninstalled(i) == installations' = [installations EXCEPT ![i].status = "uninstalled"]

UninstallPlugin(t, i) ==
    /\ FindInstallation(t, i) /\ Uninstalled(i)
    /\ UNCHANGED <<posts, keywords, assets>>

\* toggle_status asks for no status.
ToggledStatus(i, active) == installations' = [installations EXCEPT
    ![i].status = IF active THEN "active" ELSE "inactive",
    ![i].toggled = @ \/ installations[i].status = "uninstalled"]

ToggleInstallation(t, i) == \E active \in BOOLEAN :
    /\ FindInstallation(t, i) /\ ToggledStatus(i, active)
    /\ UNCHANGED <<posts, keywords, assets>>

InstalledBy(t) == OfTenant(installations, t)
ListInstalled(t, page, limit) == Page(InstalledBy(t), page, limit)
GetInstallation(t, i) == FindInstallation(t, i)

-----------------------------------------------------------------------------
TrackKeyword(t) ==
    /\ Len(keywords) < MaxKeywords
    /\ keywords' = Inserted(keywords, [tenant |-> t, deleted |-> FALSE])
    /\ UNCHANGED <<posts, installations, assets>>

\* list_keywords, and the rankings, which do not ask whether one is deleted.
ListKeywords(t, page, limit) == Page(Listed(keywords, t), page, limit)
KeywordRankings(t) == OfTenant(keywords, t)

-----------------------------------------------------------------------------
\* CampaignService.create, and those of the four other services.
CreateAsset(t, kind) ==
    /\ Len(assets) < MaxAssets
    /\ assets' = Inserted(assets, [tenant |-> t, deleted |-> FALSE, kind |-> kind])
    /\ UNCHANGED <<posts, installations, keywords>>

\* The handlers that show, change and delete one pass no tenant on.
FindAsset(a) == a \in NotDeleted(assets)

DeleteAsset(a) ==
    /\ FindAsset(a)
    /\ assets' = SoftDeleted(assets, a)
    /\ UNCHANGED <<posts, installations, keywords>>

\* Four services list what is not deleted; SegmentService lists every segment.
AssetsOf(t, kind) == {a \in Listed(assets, t) : assets[a].kind = kind}
SegmentsOf(t) == {a \in OfTenant(assets, t) : assets[a].kind = "segment"}
ListAssets(t, kind, page, limit) ==
    Answer(Page(IF kind = "segment" THEN SegmentsOf(t) ELSE AssetsOf(t, kind), page, limit))
GetAsset(a) == IF FindAsset(a) THEN "error" ELSE "not_found"

-----------------------------------------------------------------------------
SocialNext == \E t \in Tenants :
    \/ CreatePost(t)
    \/ \E p \in 1 .. MaxPosts : UpdatePost(t, p) \/ PublishPost(t, p) \/ DeletePost(t, p)

MarketplaceNext == \E t \in Tenants :
    \/ \E listing \in Listings : InstallPlugin(t, listing)
    \/ \E i \in 1 .. MaxInstallations : UninstallPlugin(t, i) \/ ToggleInstallation(t, i)

CollectionsNext ==
    \/ \E t \in Tenants : TrackKeyword(t) \/ \E kind \in Kinds : CreateAsset(t, kind)
    \/ \E a \in 1 .. MaxAssets : DeleteAsset(a)

\* The three share no row.
OutreachNext == SocialNext \/ MarketplaceNext \/ CollectionsNext

OutreachSpec == OutreachInit /\ [][OutreachNext]_outreachVars

-----------------------------------------------------------------------------
\* A platform takes a post once, and once more each time a PATCH has taken the
\* status back: failed attempts in between do not count, and nothing else
\* publishes a post twice.
PublishedOnce == \A p \in DOMAIN posts : posts[p].taken <= 1 + posts[p].reopened

\* A tenant has a listing installed once, on or off, unless an installation was
\* switched after it had been uninstalled.
InstalledOnce == \A t \in Tenants, listing \in Listings :
    Cardinality(Existing(t, listing)) > 1
        => \E i \in Existing(t, listing) : installations[i].toggled

\* What is to happen once happens once.
OutreachOnce == PublishedOnce /\ InstalledOnce

\* The differently written queries agree, as far as they do.  A list of posts fails
\* on some page when a get of the tenant's posts fails, and otherwise only for
\* deleted ones; the calendar fails with it.  What a get finds of installations and
\* keywords is on some page.  A list of marketing's tables fails when a get does,
\* and otherwise only for segments.
OutreachViewsAgree == \A t \in Tenants :
    /\ LET listed == \E p \in 1 .. MaxPosts : ListPosts(t, p, 1) = "error"
       IN  /\ listed <=> \E p \in OfTenant(posts, t) : GetPost(t, p) = "error" \/ posts[p].deleted
           /\ GetCalendar(t) = "error" => listed
    /\ {i \in DOMAIN installations : GetInstallation(t, i)}
        = Walk(LAMBDA p, l : ListInstalled(t, p, l), MaxInstallations)
    /\ KeywordRankings(t) = Walk(LAMBDA p, l : ListKeywords(t, p, l), MaxKeywords)
    /\ \A kind \in Kinds :
        LET shown == \E p \in 1 .. MaxAssets : ListAssets(t, kind, p, 1) = "error"
            found == \E a \in OfTenant(assets, t) : assets[a].kind = kind /\ GetAsset(a) = "error"
        IN  (found => shown) /\ (shown => found \/ kind = "segment")
=============================================================================
