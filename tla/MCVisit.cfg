SPECIFICATION PagesSpec
CONSTANTS
    phone = phone
    desk = desk
    Browser <- MCBrowser
    left = left
    right = right
    Tab <- MCTab
    Visit <- MCVisit
    NoCall = NoCall
    ChallengeTTL = 1
    CookieTTL = 2
    BindingTTL = 2
    LastHour = 2
    a1 = a1
    a2 = a2
    Clerk = {a1, a2}
    Slug = {"home", "new"}
    Home = "home"
    Language = {"en"}
    MaxCommands = 3
CHECK_DEADLOCK FALSE
INVARIANTS ReviewsStayWithTheirBrowser AnswersStayTrue
SYMMETRY MCVisitSymmetry
