SPECIFICATION ClientSpec
CONSTANTS
  ann = ann
  bob = bob
  eve = eve
  usersRead = usersRead
  rolesRead = rolesRead
  usersLink = usersLink
  rolesLink = rolesLink
  Operator = {ann, bob, eve}
  Nobody = Nobody
  Permission = {usersRead, rolesRead}
  Grants <- MCGrants
  Link = {usersLink, rolesLink}
  Needs <- MCNeeds
  MaxLogouts = 2
INVARIANTS
  SidebarShowsUsableLinks
